---------------------------- MODULE Spec2Model ----------------------------
(***************************************************************************)
(* Transcript pipeline of the YouTube MCP server: the service's cue cache  *)
(* and filters (src/src/youtube-service.ts), the enhanced-transcript       *)
(* request handler (src/src/index.ts), and getSegmentedTranscript          *)
(* (src/unnamed/part_003).                                                 *)
(*                                                                         *)
(* Conventions.  A JavaScript string is a sequence of one-character        *)
(* strings.  An optional value is a set: {} when undefined, {v} when       *)
(* present.  Times are integers: milliseconds for cue offsets and          *)
(* durations, seconds for time ranges and the clock.  The quotients of     *)
(* the segmentations are IEEE 754 doubles, as in the code.                 *)
(***************************************************************************)
EXTENDS Integers, Sequences, FiniteSets, TLC

VARIABLES
    segments,        \* filter harness: the cue sequence handed to a filter
    call,            \* filter harness: the operation applied and its arguments;
                     \* combined run: the cues the caption source holds
    result,          \* filter harness: what the operation returned
    prev,            \* filter harness: the output of the run before a re-run
    transcriptCache, \* YouTubeService.transcriptCache: key -> {} or {entry}
    now,             \* the clock, in seconds
    calls,           \* getTranscript invocations, in the order they started
    enh,             \* the getEnhancedTranscript invocation
    hreq,            \* enhanced-transcript handler: the request
    hpc,             \* enhanced-transcript handler: position in the loop
    hvideo,          \* enhanced-transcript handler: `video` of the iteration
    hdata,           \* enhanced-transcript handler: `transcriptData`
    results,         \* enhanced-transcript handler: the `results` array
    hlog             \* external calls issued by the handler, in order

vars == << segments, call, result, prev, transcriptCache, now, calls, enh,
           hreq, hpc, hvideo, hdata, results, hlog >>

filterVars == << segments, call, result, prev >>
serviceVars == << transcriptCache, now, calls, enh >>
handlerVars == << hreq, hpc, hvideo, hdata, results, hlog >>

-----------------------------------------------------------------------------
(* Bounds of the model *)

MaxLen == 3          \* longest cue sequence drawn as an input
MaxContext == 2      \* largest contextLines drawn
MaxCount == 3        \* largest segment count drawn
MaxCalls == 2        \* getTranscript invocations in one behaviour
MaxTicks == 2        \* clock ticks in one behaviour
MaxVideos == 2       \* longest videoIds list of a request
MaxSmartLen == 8     \* longest cue sequence drawn for the smart segmentation
MaxAwaited == 3      \* getTranscript invocations of the awaiting client

-----------------------------------------------------------------------------
(* Generic helpers *)

Has(o) == o # {}
Val(o) == CHOOSE x \in o : TRUE
OrElse(o, d) == IF Has(o) THEN Val(o) ELSE d

Min2(a, b) == IF a <= b THEN a ELSE b

SetMin(I) == CHOOSE m \in I : \A j \in I : m <= j

RECURSIVE Ascending(_)
\* Array.from(set).sort((a, b) => a - b)
Ascending(I) ==
    IF I = {} THEN <<>>
    ELSE <<SetMin(I)>> \o Ascending(I \ {SetMin(I)})

\* the elements of s at the indices I (1-based), in ascending index order
AtIndices(s, I) == LET idx == Ascending(I) IN [k \in 1..Len(idx) |-> s[idx[k]]]

RECURSIVE Flatten(_)
Flatten(ss) == IF ss = <<>> THEN <<>> ELSE Head(ss) \o Flatten(Tail(ss))

Range(s) == {s[i] : i \in 1..Len(s)}

\* how many elements of s equal x
Occurrences(s, x) == Cardinality({i \in 1..Len(s) : s[i] = x})

\* t is s with some elements removed, order kept
IsSubsequence(t, s) ==
    \E I \in SUBSET (1..Len(s)) : AtIndices(s, I) = t


-----------------------------------------------------------------------------
(* JavaScript numbers: IEEE 754 doubles, for the non-negative values the    *)
(* segmentations compute.  A natural number of any size is the sequence of  *)
(* its digits in base 2^15, least significant first and without leading     *)
(* zeros; a double is mant * 2^exp with mant such a number, odd or zero.    *)

LimbBits == 15
LimbBase == 2 ^ LimbBits

RECURSIVE BigOfInt(_)
BigOfInt(n) ==
    IF n = 0 THEN <<>> ELSE <<n % LimbBase>> \o BigOfInt(n \div LimbBase)

RECURSIVE IntOfBig(_)
IntOfBig(a) == IF a = <<>> THEN 0 ELSE Head(a) + LimbBase * IntOfBig(Tail(a))

RECURSIVE BigTrim(_)
BigTrim(a) ==
    IF a # <<>> /\ a[Len(a)] = 0 THEN BigTrim(SubSeq(a, 1, Len(a) - 1)) ELSE a

RECURSIVE BigMulCarry(_, _, _)
\* a * k + carry for 0 <= k <= 2^15, possibly with leading zeros
BigMulCarry(a, k, carry) ==
    IF a = <<>> THEN BigOfInt(carry)
    ELSE LET t == Head(a) * k + carry
         IN  <<t % LimbBase>> \o BigMulCarry(Tail(a), k, t \div LimbBase)

RECURSIVE BigAddCarry(_, _, _)
\* a + b + carry
BigAddCarry(a, b, carry) ==
    IF a = <<>> /\ b = <<>> THEN BigOfInt(carry)
    ELSE LET t == (IF a = <<>> THEN 0 ELSE Head(a))
                  + (IF b = <<>> THEN 0 ELSE Head(b)) + carry
         IN  <<t % LimbBase>>
                 \o BigAddCarry(IF a = <<>> THEN a ELSE Tail(a),
                                IF b = <<>> THEN b ELSE Tail(b),
                                t \div LimbBase)

RECURSIVE BigDivRem(_, _)
\* quotient (untrimmed) and remainder of a by k, 1 <= k <= 2^15
BigDivRem(a, k) ==
    IF a = <<>> THEN [q |-> <<>>, r |-> 0]
    ELSE LET hi == BigDivRem(Tail(a), k)
             t == hi.r * LimbBase + Head(a)
         IN  [q |-> <<t \div k>> \o hi.q, r |-> t % k]

RECURSIVE BigCmp(_, _)
\* -1, 0 or 1 as a is below, equal to or above b
BigCmp(a, b) ==
    IF Len(a) # Len(b) THEN (IF Len(a) < Len(b) THEN -1 ELSE 1)
    ELSE IF a = <<>> THEN 0
    ELSE IF a[Len(a)] # b[Len(b)]
    THEN (IF a[Len(a)] < b[Len(b)] THEN -1 ELSE 1)
    ELSE BigCmp(SubSeq(a, 1, Len(a) - 1), SubSeq(b, 1, Len(b) - 1))

RECURSIVE IntBitLen(_)
IntBitLen(n) == IF n = 0 THEN 0 ELSE 1 + IntBitLen(n \div 2)

BigBitLen(a) ==
    IF a = <<>> THEN 0 ELSE LimbBits * (Len(a) - 1) + IntBitLen(a[Len(a)])

RECURSIVE BigShl(_, _)
\* a * 2^s
BigShl(a, s) ==
    IF s = 0 \/ a = <<>> THEN a
    ELSE IF s >= LimbBits THEN <<0>> \o BigShl(a, s - LimbBits)
    ELSE BigTrim(BigMulCarry(a, 2 ^ s, 0))

RECURSIVE BigShr(_, _)
\* floor(a / 2^s), and whether a non-zero part was shifted out
BigShr(a, s) ==
    IF s = 0 \/ a = <<>> THEN [q |-> a, lost |-> FALSE]
    ELSE IF s >= LimbBits
    THEN LET rest == BigShr(Tail(a), s - LimbBits)
         IN  [q |-> rest.q, lost |-> rest.lost \/ Head(a) # 0]
    ELSE LET d == BigDivRem(a, 2 ^ s)
         IN  [q |-> BigTrim(d.q), lost |-> d.r # 0]

RECURSIVE IntTrailingZeros(_)
\* the number of zero bits at the low end of n > 0
IntTrailingZeros(n) == IF n % 2 = 1 THEN 0 ELSE 1 + IntTrailingZeros(n \div 2)

RECURSIVE Canonical(_, _)
\* mant * 2^exp with the trailing zero bits of mant moved into exp
Canonical(mant, exp) ==
    IF mant = <<>> THEN [mant |-> <<>>, exp |-> 0]
    ELSE IF Head(mant) = 0 THEN Canonical(Tail(mant), exp + LimbBits)
    ELSE LET zeros == IntTrailingZeros(Head(mant))
         IN  [mant |-> BigShr(mant, zeros).q, exp |-> exp + zeros]

\* the double nearest to (n + d) * 2^exp, ties to even; d is 0, or lies
\* strictly between 0 and 1 when sticky, and then n has more than 54 bits
RoundToDouble(n, exp, sticky) ==
    LET \* q rounded by the bit below it (the low bit of a.q) and what follows
        Nearest(a, q) ==
            IF Head(a.q) % 2 = 1 /\ (a.lost \/ sticky \/ Head(q) % 2 = 1)
            THEN BigAddCarry(q, <<1>>, 0) ELSE q
        Halved(a) == Nearest(a, BigShr(a.q, 1).q)
        \* the 53 leading bits of n, rounded, and their exponent
        Leading(bits) ==
            IF bits <= 53 THEN [mant |-> n, exp |-> exp]
            ELSE [mant |-> Halved(BigShr(n, bits - 54)), exp |-> exp + bits - 53]
        Made(r) == Canonical(r.mant, r.exp)
    IN  Made(Leading(BigBitLen(n)))

\* the double of an integer n >= 0
Double(n) ==
    IF n > 0 /\ n < LimbBase
    THEN [mant |-> <<n \div (2 ^ IntTrailingZeros(n))>>,
          exp |-> IntTrailingZeros(n)]
    ELSE Canonical(BigOfInt(n), 0)

\* x * k in floating point, k an integer in 0..2^15
DoubleTimes(x, k) ==
    RoundToDouble(BigTrim(BigMulCarry(x.mant, k, 0)), x.exp, FALSE)

\* x / k in floating point, k an integer in 1..2^15
DoubleOver(x, k) ==
    LET Rounded(d, p) == RoundToDouble(BigTrim(d.q), x.exp - p, d.r # 0)
        \* the mantissa is shifted by p places to 70 bits and then divided
        Shifted(p) == Rounded(BigDivRem(BigShl(x.mant, p), k), p)
    IN  IF x.mant = <<>> THEN x ELSE Shifted(70 - BigBitLen(x.mant))

\* x + y in floating point
DoublePlus(x, y) ==
    IF x.mant = <<>> THEN y
    ELSE IF y.mant = <<>> THEN x
    ELSE LET exp == Min2(x.exp, y.exp)
         IN  RoundToDouble(BigAddCarry(BigShl(x.mant, x.exp - exp),
                                       BigShl(y.mant, y.exp - exp), 0),
                           exp, FALSE)

\* -1, 0 or 1 as x is below, equal to or above y: by the places of their
\* leading bits, and by their aligned digits when these are the same
DoubleCmp(x, y) ==
    IF x.mant = <<>> THEN (IF y.mant = <<>> THEN 0 ELSE -1)
    ELSE IF y.mant = <<>> THEN 1
    ELSE LET topX == BigBitLen(x.mant) + x.exp
             topY == BigBitLen(y.mant) + y.exp
             exp == Min2(x.exp, y.exp)
         IN  IF topX # topY THEN (IF topX < topY THEN -1 ELSE 1)
             ELSE IF x.exp = y.exp THEN BigCmp(x.mant, y.mant)
             ELSE BigCmp(BigShl(x.mant, x.exp - exp),
                         BigShl(y.mant, y.exp - exp))

\* Math.floor(x) as an integer
DoubleFloor(x) ==
    IF x.exp >= 0 THEN IntOfBig(BigShl(x.mant, x.exp))
    ELSE IntOfBig(BigShr(x.mant, 0 - x.exp).q)

\* Math.max(x, y)
DoubleMax(x, y) == IF DoubleCmp(x, y) >= 0 THEN x ELSE y

-----------------------------------------------------------------------------
(* JavaScript strings *)

\* String.prototype.toLowerCase on one character of the alphabet used here
LowerChar(ch) ==
    CASE ch = "A" -> "a"
      [] ch = "B" -> "b"
      [] OTHER -> ch

toLowerCase(str) == [i \in 1..Len(str) |-> LowerChar(str[i])]

\* String.prototype.includes: needle occurs in str as a contiguous substring
includes(str, needle) ==
    \E i \in 0..(Len(str) - Len(needle)) :
        SubSeq(str, i + 1, i + Len(needle)) = needle

IsSpace(ch) == ch = " "

RECURSIVE trimStart(_)
trimStart(str) ==
    IF str # <<>> /\ IsSpace(Head(str)) THEN trimStart(Tail(str)) ELSE str

RECURSIVE trimEnd(_)
trimEnd(str) ==
    IF str # <<>> /\ IsSpace(str[Len(str)])
    THEN trimEnd(SubSeq(str, 1, Len(str) - 1))
    ELSE str

\* String.prototype.trim
trim(str) == trimEnd(trimStart(str))

\* Array.prototype.join
RECURSIVE join(_, _)
join(strs, sep) ==
    IF strs = <<>> THEN <<>>
    ELSE IF Len(strs) = 1 THEN strs[1]
    ELSE strs[1] \o sep \o join(Tail(strs), sep)

Digit(d) == CASE d = 0 -> "0" [] d = 1 -> "1" [] d = 2 -> "2" [] d = 3 -> "3"
              [] d = 4 -> "4" [] d = 5 -> "5" [] d = 6 -> "6" [] d = 7 -> "7"
              [] d = 8 -> "8" [] d = 9 -> "9"

RECURSIVE toString(_)
\* Number.prototype.toString of a natural number
toString(n) == IF n < 10 THEN <<Digit(n)>> ELSE toString(n \div 10) \o <<Digit(n % 10)>>

\* str.padStart(2, '0')
padStart2(str) == IF Len(str) < 2 THEN <<"0">> \o str ELSE str

\* formatTime of index.ts for milliseconds that are a double:
\* Math.floor(milliseconds / 1000), then minutes and seconds
formatTimeOfDouble(milliseconds) ==
    LET Clock(totalSeconds) ==
            padStart2(toString(totalSeconds \div 60)) \o <<":">>
                \o padStart2(toString(totalSeconds % 60))
    IN  Clock(DoubleFloor(DoubleOver(milliseconds, 1000)))

\* formatTime of index.ts for integer milliseconds: the floating-point
\* quotient milliseconds / 1000 is an integer or lies 1/1000 or more away
\* from one, so that its Math.floor is the integer quotient
formatTime(milliseconds) ==
    LET totalSeconds == milliseconds \div 1000
        minutes == totalSeconds \div 60
        seconds == totalSeconds % 60
    IN  padStart2(toString(minutes)) \o <<":">> \o padStart2(toString(seconds))

\* `[${startTime}] ${segment.text}`
timestampedLine(stamp, text) == <<"[">> \o stamp \o <<"]", " ">> \o text

-----------------------------------------------------------------------------
(* YouTubeService: the filter pipeline (youtube-service.ts) *)

\* `if (end)`: a number is truthy unless it is 0
Truthy(o) == Has(o) /\ Val(o) # 0

\* a time-range filter that also loses the first cue it keeps
timeRangeDroppingFirst(segs, timeRange) ==
    LET start == OrElse(timeRange.start, 0)
        kept == AtIndices(segs, {i \in 1..Len(segs) : segs[i].offset >= start * 1000})
    IN  IF kept = <<>> THEN kept ELSE Tail(kept)

filterByTimeRange(segs, timeRange) ==
    LET start == OrElse(timeRange.start, 0)
        end == timeRange.end
        Keep(segment) ==
            IF Truthy(end)
            THEN /\ segment.offset >= start * 1000
                 /\ segment.offset + segment.duration <= Val(end) * 1000
            ELSE segment.offset >= start * 1000
    IN  AtIndices(segs, {i \in 1..Len(segs) : Keep(segs[i])})

\* the test of the search loop, shared in form by service and handler
TextMatches(text, query, caseSensitive) ==
    LET t == IF caseSensitive THEN text ELSE toLowerCase(text)
        searchText == IF caseSensitive THEN query ELSE toLowerCase(query)
    IN  includes(t, searchText)

matchedIndices(segs, query, caseSensitive) ==
    {i \in 1..Len(segs) : TextMatches(segs[i].text, query, caseSensitive)}

filterBySearchText(segs, search) ==
    LET query == search.query
        caseSensitive == OrElse(search.caseSensitive, FALSE)
        contextLines == OrElse(search.contextLines, 0)
        matched == matchedIndices(segs, query, caseSensitive)
        indicesWithContext ==
            matched \cup
            {j \in 1..Len(segs) :
                \E index \in matched : \E i \in 1..contextLines :
                    j = index - i \/ j = index + i}
    IN  IF query = <<>> \/ trim(query) = <<>> THEN segs
        ELSE IF matched = {} THEN <<>>
        ELSE AtIndices(segs, indicesWithContext)

Sum(s, F(_)) ==
    LET RECURSIVE acc(_)
        acc(k) == IF k = 0 THEN 0 ELSE acc(k - 1) + F(s[k])
    IN  acc(Len(s))

CeilDiv(a, b) == (a + b - 1) \div b

\* slices of segmentSize cues, a shorter last slice left out
equalGroupsFullOnly(segs, count) ==
    LET segmentSize == CeilDiv(Len(segs), count)
        n == Len(segs) \div segmentSize
    IN  [g \in 1..n |->
            SubSeq(segs, (g - 1) * segmentSize + 1, g * segmentSize)]

\* the groups of the equal method: slices of segmentSize cues
equalGroups(segs, count) ==
    LET segmentSize == CeilDiv(Len(segs), count)
        n == CeilDiv(Len(segs), segmentSize)
    IN  [g \in 1..n |->
            SubSeq(segs, (g - 1) * segmentSize + 1,
                   Min2(g * segmentSize, Len(segs)))]

RECURSIVE smartWalk(_, _, _, _, _, _)
\* the forEach of the smart method: (remaining cues, result, currentSegment,
\* currentDuration), with durationPerSegment = totalDuration / count
smartWalk(rest, res, currentSegment, currentDuration, durationPerSegment, count) ==
    IF rest = <<>>
    THEN IF currentSegment # <<>> THEN Append(res, currentSegment) ELSE res
    ELSE LET cur == Append(currentSegment, Head(rest))
             dur == currentDuration + Head(rest).duration
         IN  IF /\ DoubleCmp(Double(dur), durationPerSegment) >= 0
                /\ Len(res) < count - 1
             THEN smartWalk(Tail(rest), Append(res, cur), <<>>, 0,
                            durationPerSegment, count)
             ELSE smartWalk(Tail(rest), res, cur, dur, durationPerSegment, count)

smartGroups(segs, count) ==
    LET totalDuration == Sum(segs, LAMBDA c : c.duration)
        durationPerSegment == DoubleOver(Double(totalDuration), count)
    IN  smartWalk(segs, <<>>, <<>>, 0, durationPerSegment, count)

segmentTranscript(segs, segmentOptions) ==
    LET method == OrElse(segmentOptions.method, "equal")
        count == OrElse(segmentOptions.count, 1)
    IN  IF count <= 1 \/ Len(segs) <= count THEN segs
        ELSE IF method = "equal" THEN Flatten(equalGroups(segs, count))
        ELSE Flatten(smartGroups(segs, count))

processTranscript(segs, options) ==
    IF Len(segs) = 0 THEN <<>>
    ELSE LET s1 == IF Has(options.timeRange)
                   THEN filterByTimeRange(segs, Val(options.timeRange))
                   ELSE segs
             s2 == IF Has(options.search)
                   THEN filterBySearchText(s1, Val(options.search))
                   ELSE s1
         IN  IF Has(options.segment)
             THEN segmentTranscript(s2, Val(options.segment))
             ELSE s2

-----------------------------------------------------------------------------
(* enhanced-transcript handler: the filters written inline (index.ts) *)

\* a Caption of the handler without the isMatch mark
Core(c) == [text |-> c.text, offset |-> c.offset, duration |-> c.duration]

Cores(s) == [i \in 1..Len(s) |-> Core(s[i])]

handlerTimeRange(captions, timeRange) ==
    LET start == timeRange.start
        end == timeRange.end
        afterStart(c) == IF Has(start) THEN c.offset >= Val(start) * 1000 ELSE TRUE
        beforeEnd(c) ==
            IF Has(end) THEN c.offset + c.duration <= Val(end) * 1000 ELSE TRUE
    IN  IF Has(start) \/ Has(end)
        THEN AtIndices(captions,
                 {i \in 1..Len(captions) :
                      afterStart(captions[i]) /\ beforeEnd(captions[i])})
        ELSE captions

\* `filters.search.contextLines || 2`: undefined and 0 both give 2
handlerContextLines(search) ==
    IF Truthy(search.contextLines) THEN Val(search.contextLines) ELSE 2

\* `filters.search.caseSensitive || false`
handlerCaseSensitive(search) == OrElse(search.caseSensitive, FALSE)

\* searchMatches: one {match, matchIndex, context} per matching caption, the
\* context being captions.slice(contextStart, contextEnd + 1) with its marks
searchMatches(captions, search) ==
    LET contextLines == handlerContextLines(search)
        matchIndices ==
            Ascending(matchedIndices(captions, search.query,
                                     handlerCaseSensitive(search)))
        context(matchIndex) ==
            LET contextStart == IF matchIndex - contextLines > 1
                                THEN matchIndex - contextLines ELSE 1
                contextEnd == Min2(Len(captions), matchIndex + contextLines)
            IN  [k \in 1..(contextEnd - contextStart + 1) |->
                    [text |-> captions[contextStart + k - 1].text,
                     offset |-> captions[contextStart + k - 1].offset,
                     duration |-> captions[contextStart + k - 1].duration,
                     isMatch |-> (contextStart + k - 1 = matchIndex)]]
    IN  [m \in 1..Len(matchIndices) |->
            [match |-> captions[matchIndices[m]],
             matchIndex |-> matchIndices[m],
             context |-> context(matchIndices[m])]]

RECURSIVE uniqueByOffset(_, _, _)
\* "Remove duplicates by offset": the first caption of each offset is kept
uniqueByOffset(matchSegments, offsetSet, uniqueSegments) ==
    IF matchSegments = <<>> THEN uniqueSegments
    ELSE LET segment == Head(matchSegments)
         IN  IF segment.offset \in offsetSet
             THEN uniqueByOffset(Tail(matchSegments), offsetSet, uniqueSegments)
             ELSE uniqueByOffset(Tail(matchSegments),
                                 offsetSet \cup {segment.offset},
                                 Append(uniqueSegments, segment))

RECURSIVE insertByOffset(_, _)
insertByOffset(sorted, c) ==
    IF sorted = <<>> THEN <<c>>
    ELSE IF sorted[Len(sorted)].offset <= c.offset THEN Append(sorted, c)
    ELSE Append(insertByOffset(SubSeq(sorted, 1, Len(sorted) - 1), c),
                sorted[Len(sorted)])

RECURSIVE sortByOffset(_)
\* uniqueSegments.sort((a, b) => a.offset - b.offset), a stable sort
sortByOffset(s) ==
    IF s = <<>> THEN <<>>
    ELSE insertByOffset(sortByOffset(SubSeq(s, 1, Len(s) - 1)), s[Len(s)])

\* the search block of the handler: the new filteredTranscript
handlerSearch(captions, search) ==
    LET matches == searchMatches(captions, search)
        matchSegments == Flatten([m \in 1..Len(matches) |-> matches[m].context])
    IN  IF search.query = <<>> THEN captions
        ELSE IF Len(matches) > 0
        THEN sortByOffset(uniqueByOffset(matchSegments, {}, <<>>))
        ELSE <<>>

\* `filters.segment.count || 5`
handlerSegmentCount(segment) ==
    IF Truthy(segment.count) THEN Val(segment.count) ELSE 5

\* the equal method of the handler: window i (0-based) is
\* [firstOffset + i * segmentDuration, that + segmentDuration), computed in
\* floating point as the code computes it
handlerEqualSegments(captions, segmentCount) ==
    LET firstOffset == captions[1].offset
        lastOffset == captions[Len(captions)].offset
                      + captions[Len(captions)].duration
        totalDuration == lastOffset - firstOffset
        \* caption.offset >= segmentStart && caption.offset < segmentEnd
        Within(offset, segmentStart, segmentEnd) ==
            /\ DoubleCmp(offset, segmentStart) >= 0
            /\ DoubleCmp(offset, segmentEnd) < 0
        Segment(segmentStart, segmentEnd) ==
            [startTime |-> formatTimeOfDouble(segmentStart),
             endTime |-> formatTimeOfDouble(segmentEnd),
             captions |->
                 AtIndices(captions,
                     {k \in 1..Len(captions) :
                         Within(Double(captions[k].offset),
                                segmentStart, segmentEnd)})]
        SegmentFrom(segmentStart, segmentDuration) ==
            Segment(segmentStart, DoublePlus(segmentStart, segmentDuration))
        Segments(segmentDuration) ==
            [j \in 1..segmentCount |->
                SegmentFrom(DoublePlus(Double(firstOffset),
                                       DoubleTimes(segmentDuration, j - 1)),
                            segmentDuration)]
        \* `if (segmentCaptions.length > 0)`
        Pushed(segs) ==
            AtIndices(segs, {j \in 1..Len(segs) : Len(segs[j].captions) > 0})
    IN  Pushed(Segments(DoubleOver(Double(totalDuration), segmentCount)))

Flat(captions) == [kind |-> "flat", captions |-> captions]
Segmented(segs) == [kind |-> "segments", segments |-> segs]

\* the equal branch of the segment block: filteredTranscript afterwards
handlerEqual(captions, segment) ==
    LET segs == handlerEqualSegments(captions, handlerSegmentCount(segment))
    IN  IF Len(captions) > 0 /\ Len(segs) > 0 THEN Segmented(segs)
        ELSE Flat(captions)

\* a Segment of the smart method, built from the cues collected so far
smartSegment(currentSegment) ==
    [startTime |-> formatTime(currentSegment[1].offset),
     endTime |-> formatTime(currentSegment[Len(currentSegment)].offset
                            + currentSegment[Len(currentSegment)].duration),
     captions |-> currentSegment]

\* the pause before caption i (1-based, i >= 2)
gapBefore(captions, i) ==
    captions[i].offset - (captions[i - 1].offset + captions[i - 1].duration)

\* `Math.max(avgGap * 3, 1000)`, avgGap being the mean of the positive gaps,
\* or 0 when there is none, in floating point
significantPause(captions) ==
    LET positive == {i \in 2..Len(captions) : gapBefore(captions, i) > 0}
        gapCount == Cardinality(positive)
        totalGap == Sum(Ascending(positive), LAMBDA i : gapBefore(captions, i))
        avgGap == IF gapCount > 0 THEN DoubleOver(Double(totalGap), gapCount)
                  ELSE Double(0)
    IN  DoubleMax(DoubleTimes(avgGap, 3), Double(1000))

\* a test that also takes a gap equal to the threshold for a pause
isSignificantPauseOrEqual(gap, pause) ==
    gap > 0 /\ DoubleCmp(Double(gap), pause) >= 0

\* `gap > significantPause`
isSignificantPause(gap, pause) ==
    gap > 0 /\ DoubleCmp(Double(gap), pause) > 0

RECURSIVE smartLoopUnbounded(_, _, _, _, _, _, _)
\* a loop that breaks at every significant pause, whatever the limit
smartLoopUnbounded(captions, i, segs, currentSegment, segmentCount, limit, pause) ==
    IF i > Len(captions)
    THEN IF Len(currentSegment) > 0
         THEN Append(segs, smartSegment(currentSegment))
         ELSE segs
    ELSE IF /\ isSignificantPause(gapBefore(captions, i), pause)
            /\ Len(currentSegment) > 0
    THEN smartLoopUnbounded(captions, i + 1,
                            Append(segs, smartSegment(currentSegment)),
                            <<captions[i]>>, segmentCount + 1, limit, pause)
    ELSE smartLoopUnbounded(captions, i + 1, segs,
                            Append(currentSegment, captions[i]),
                            segmentCount, limit, pause)

RECURSIVE smartLoop(_, _, _, _, _, _, _)
\* the second loop of the smart method from caption i on; `break` leaves the
\* loop with an empty currentSegment
smartLoop(captions, i, segs, currentSegment, segmentCount, limit, pause) ==
    IF i > Len(captions)
    THEN IF Len(currentSegment) > 0
         THEN Append(segs, smartSegment(currentSegment))
         ELSE segs
    ELSE IF /\ isSignificantPause(gapBefore(captions, i), pause)
            /\ Len(currentSegment) > 0
    THEN IF segmentCount + 1 >= limit
         THEN Append(segs, smartSegment(currentSegment))
         ELSE smartLoop(captions, i + 1,
                        Append(segs, smartSegment(currentSegment)),
                        <<captions[i]>>, segmentCount + 1, limit, pause)
    ELSE smartLoop(captions, i + 1, segs, Append(currentSegment, captions[i]),
                   segmentCount, limit, pause)

handlerSmartSegments(captions, limit) ==
    smartLoop(captions, 2, <<>>, <<captions[1]>>, 0, limit,
              significantPause(captions))

\* the smart branch of the segment block: filteredTranscript afterwards
handlerSmart(captions, segment) ==
    LET segs == handlerSmartSegments(captions, handlerSegmentCount(segment))
    IN  IF Len(captions) > 0 /\ Len(segs) > 0 THEN Segmented(segs)
        ELSE Flat(captions)

\* searchResults: null ({}) unless the search ran and matched
handlerSearchResults(captions, search) ==
    LET matches == searchMatches(captions, search)
    IN  IF search.query # <<>> /\ Len(matches) > 0
        THEN {[query |-> search.query, matchCount |-> Len(matches),
               matches |-> matches]}
        ELSE {}

\* the filter blocks of the handler in their order: time range, search,
\* segment; `filters` is {} when the request has none
handlerFilters(transcriptData, filters) ==
    LET f == IF Has(filters) THEN Val(filters)
             ELSE [timeRange |-> {}, search |-> {}, segment |-> {}]
        t1 == IF Has(f.timeRange)
              THEN handlerTimeRange(transcriptData, Val(f.timeRange))
              ELSE transcriptData
        t2 == IF Has(f.search) THEN handlerSearch(t1, Val(f.search)) ELSE t1
        method == IF Has(f.segment) THEN OrElse(Val(f.segment).method, "equal")
                  ELSE "none"
    IN  [search |-> IF Has(f.search) THEN handlerSearchResults(t1, Val(f.search))
                    ELSE {},
         filteredTranscript |->
             IF Has(f.segment) /\ Len(t2) > 0
             THEN IF method = "equal" THEN handlerEqual(t2, Val(f.segment))
                  ELSE handlerSmart(t2, Val(f.segment))
             ELSE Flat(t2)]

\* `### Segment ${segment.startTime} - ${segment.endTime}\n\n`
segmentHeader(segment) ==
    <<"#", "#", "#", " ", "S", "e", "g", "m", "e", "n", "t", " ">>
        \o segment.startTime \o <<" ", "-", " ">> \o segment.endTime
        \o <<"\n", "\n">>

timestampedText(captions) ==
    join([k \in 1..Len(captions) |->
             timestampedLine(formatTime(captions[k].offset), captions[k].text)],
         <<"\n">>)

\* the texts of the captions run together with nothing between them
mergedTextUnspaced(captions) ==
    join([k \in 1..Len(captions) |-> captions[k].text], <<>>)

mergedText(captions) ==
    join([k \in 1..Len(captions) |-> captions[k].text], <<" ">>)

\* the format block of the handler: formattedTranscript
handlerFormat(filteredTranscript, format) ==
    IF filteredTranscript.kind = "flat"
    THEN CASE format = "raw" -> filteredTranscript.captions
           [] format = "timestamped" -> timestampedText(filteredTranscript.captions)
           [] format = "merged" -> mergedText(filteredTranscript.captions)
    ELSE IF format = "raw" THEN filteredTranscript.segments
    ELSE join([k \in 1..Len(filteredTranscript.segments) |->
                  segmentHeader(filteredTranscript.segments[k])
                  \o (IF format = "timestamped"
                      THEN timestampedText(filteredTranscript.segments[k].captions)
                      ELSE mergedText(filteredTranscript.segments[k].captions))],
              <<"\n", "\n">>)

\* filteredCaptionCount of the result metadata
filteredCaptionCount(filteredTranscript) ==
    IF filteredTranscript.kind = "flat" THEN Len(filteredTranscript.captions)
    ELSE Sum(filteredTranscript.segments, LAMBDA seg : Len(seg.captions))

-----------------------------------------------------------------------------
(* YouTubeService.getSegmentedTranscript (unnamed/part_003) *)

\* the local `segments` array: window i (0-based) is
\* [i * segmentDuration, (i + 1) * segmentDuration) in seconds, computed in
\* floating point as the code computes it
segmentedWindows(transcriptData, segmentCount) ==
    LET lastSegment == transcriptData[Len(transcriptData)]
        \* segmentStartTime >= startTime && segmentStartTime < endTime
        Within(segmentStartTime, startTime, endTime) ==
            /\ DoubleCmp(segmentStartTime, startTime) >= 0
            /\ DoubleCmp(segmentStartTime, endTime) < 0
        Joined(startTime, endTime, inWindow) ==
            [startTime |-> startTime,
             endTime |-> endTime,
             text |-> join([k \in 1..Len(inWindow) |->
                               inWindow[k].text], <<" ">>),
             transcriptSegments |-> inWindow]
        Window(startTime, endTime) ==
            Joined(startTime, endTime,
                AtIndices(transcriptData,
                    {k \in 1..Len(transcriptData) :
                        Within(DoubleOver(Double(transcriptData[k].offset), 1000),
                               startTime, endTime)}))
        Windows(segmentDuration) ==
            [j \in 1..segmentCount |->
                Window(DoubleTimes(segmentDuration, j - 1),
                       DoubleTimes(segmentDuration, j))]
        \* `if (segmentTranscript.length > 0)`
        Pushed(segs) ==
            AtIndices(segs,
                {j \in 1..Len(segs) : Len(segs[j].transcriptSegments) > 0})
        Split(totalDuration) ==
            Pushed(Windows(DoubleOver(totalDuration, segmentCount)))
    IN  Split(DoubleOver(Double(lastSegment.offset + lastSegment.duration), 1000))

-----------------------------------------------------------------------------
(* Inputs of the filter harness *)

Texts == { <<"a">>, <<"A", "b">>, <<"b", " ", "b">> }

Queries == { <<>>, <<"a">>, <<"A">>, <<"b", " ">>, <<" ">>, <<"c">> }

\* cues that differ in text; two of them may share an offset
SearchCues ==
    [text : Texts, offset : {0, 1000}, duration : {1000}]

\* cues that differ in timing, zero durations included
TimedCues ==
    [text : {<<"a">>}, offset : {0, 1000, 2000}, duration : {0, 1000, 2000}]

\* the caption source delivers cues in non-decreasing offset order
Chronological(s) == \A i \in 1..(Len(s) - 1) : s[i].offset <= s[i + 1].offset

CueSequences(cues) ==
    {s \in UNION {[1..n -> cues] : n \in 0..MaxLen} : Chronological(s)}

Optional(S) == {{}} \cup {{x} : x \in S}

TimeRanges == [start : Optional(0..2), end : Optional(0..3)]

SearchSpecs ==
    [query : Queries, caseSensitive : Optional(BOOLEAN),
     contextLines : Optional(0..MaxContext)]

SegmentSpecs ==
    [method : Optional({"equal", "smart"}), count : Optional(1..MaxCount)]

Idle == [op |-> "none"]

-----------------------------------------------------------------------------
(* The filter harness: one filter applied to a drawn cue sequence *)

FilterInit ==
    /\ segments \in CueSequences(SearchCues) \cup CueSequences(TimedCues)
    /\ call = Idle
    /\ result = <<>>
    /\ prev = <<>>

\* the time-range filter of the service or of the handler
ApplyTimeRange ==
    \E impl \in {"service", "handler"} : \E timeRange \in TimeRanges :
        /\ call = Idle
        /\ call' = [op |-> "timeRange", impl |-> impl, timeRange |-> timeRange]
        /\ result' = IF impl = "service"
                     THEN filterByTimeRange(segments, timeRange)
                     ELSE handlerTimeRange(segments, timeRange)
        /\ UNCHANGED << segments, prev, serviceVars, handlerVars >>

SearchOf(impl, captions, search) ==
    IF impl = "service" THEN filterBySearchText(captions, search)
    ELSE handlerSearch(captions, search)

\* the search filter of the service or of the handler
ApplySearch ==
    \E impl \in {"service", "handler"} : \E search \in SearchSpecs :
        /\ call = Idle
        /\ call' = [op |-> "search", impl |-> impl, search |-> search, run |-> 1]
        /\ result' = SearchOf(impl, segments, search)
        /\ UNCHANGED << segments, prev, serviceVars, handlerVars >>

\* the same search run again on its own output
RerunSearch ==
    /\ call.op = "search"
    /\ call.run = 1
    /\ call' = [call EXCEPT !.run = 2]
    /\ prev' = result
    /\ result' = SearchOf(call.impl, result, call.search)
    /\ UNCHANGED << segments, serviceVars, handlerVars >>

\* equal time-segmentation: the handler's equal method, getSegmentedTranscript
ApplyEqual ==
    \E impl \in {"handler", "getSegmentedTranscript"} :
    \E count \in Optional(1..MaxCount) :
        /\ call = Idle
        /\ Len(segments) > 0
        /\ call' = [op |-> "equal", impl |-> impl, count |-> count]
        /\ result' =
             IF impl = "handler"
             THEN handlerEqual(segments, [method |-> {"equal"}, count |-> count])
             ELSE Segmented(segmentedWindows(segments, OrElse(count, 4)))
        /\ UNCHANGED << segments, prev, serviceVars, handlerVars >>

FilterNext ==
    \/ ApplyTimeRange
    \/ ApplySearch
    \/ RerunSearch
    \/ ApplyEqual

ServiceIdle ==
    /\ transcriptCache = {}
    /\ now = 0
    /\ calls = <<>>
    /\ enh = Idle

HandlerIdle ==
    /\ hreq = Idle
    /\ hpc = [at |-> "idle", i |-> 0]
    /\ hvideo = {}
    /\ hdata = <<>>
    /\ results = <<>>
    /\ hlog = <<>>

InitFilter == FilterInit /\ ServiceIdle /\ HandlerIdle

SpecFilter ==
    /\ InitFilter
    /\ [][FilterNext]_vars

-----------------------------------------------------------------------------
(* The external collaborators *)

VideoIds == {"v1", "v2"}

Languages == {"en"}

Cue(text, offset, duration) ==
    [text |-> text, offset |-> offset, duration |-> duration]

\* what getSubtitles({videoID, lang}) resolves to when it resolves; "v2" has
\* no cues in the language "en", and no video has cues in a language that
\* is called "default". In the combined run the caption source holds the
\* drawn sequence, cut in two: the first part for "v1", the rest for "v2"
Subtitles(videoID, lang) ==
    CASE call.op = "combined" ->
             call.raws[IF videoID = "v1" THEN 1 ELSE 2]
      [] videoID = "v1" /\ lang = {} ->
             << Cue(<<"a">>, 0, 1000), Cue(<<"A", "b">>, 1000, 1000),
                Cue(<<"b", " ", "b">>, 4000, 1000) >>
      [] videoID = "v1" /\ lang = {"en"} ->
             << Cue(<<"a">>, 0, 1000), Cue(<<"b", " ", "b">>, 2000, 0) >>
      [] videoID = "v2" /\ lang = {} ->
             << Cue(<<"A", "b">>, 0, 2000), Cue(<<"a">>, 2000, 1000) >>
      [] OTHER -> <<>>

\* a video resource of the metadata provider (videos.list items[0])
VideoItem(videoId) == [id |-> videoId, title |-> <<"t">>]

-----------------------------------------------------------------------------
(* The smart segmentation harness: cue sequences with pauses *)

\* the pauses between consecutive cues of one sequence, in milliseconds: none,
\* long ones, and either short ones or ones of a second
Gaps == {{0, 10, 5000}, {0, 1000, 5000}}

\* the cue sequence with the given pauses: every cue lasts one second and the
\* first starts at 0
CuesOfGaps(gaps) ==
    [i \in 1..(Len(gaps) + 1) |->
        Cue(<<"a">>,
            (i - 1) * 1000 + Sum(SubSeq(gaps, 1, i - 1), LAMBDA g : g),
            1000)]

PausedSequences ==
    {CuesOfGaps(gaps) :
        gaps \in UNION {[1..n -> G] : n \in 0..(MaxSmartLen - 1), G \in Gaps}}

SmartInit ==
    /\ segments \in PausedSequences
    /\ call = Idle
    /\ result = <<>>
    /\ prev = <<>>

\* the smart branch of the handler's segment block
ApplySmart ==
    \E count \in Optional(1..MaxCount) :
        /\ call = Idle
        /\ call' = [op |-> "smart", count |-> count]
        /\ result' = handlerSmart(segments, [method |-> {"smart"}, count |-> count])
        /\ UNCHANGED << segments, prev, serviceVars, handlerVars >>

InitSmart == SmartInit /\ ServiceIdle /\ HandlerIdle

SpecSmart == InitSmart /\ [][ApplySmart]_vars

-----------------------------------------------------------------------------
(* YouTubeService: the cue cache and getTranscript (youtube-service.ts) *)

TRANSCRIPT_CACHE_TTL == 3600

\* the period of the cache's own check for dead entries: NodeCache is built
\* without a checkperiod and takes its default, 600 s
checkperiod == 600

\* the clock advances by this step: the second step passes the expiry of an
\* entry stored at the start, by less than a checkperiod
TickSeconds == 2000

\* `language || 'default'`: an absent language and the empty string are both
\* falsy and read as "default"
languageOrDefault(language) ==
    IF Has(language) /\ Val(language) # "" THEN Val(language) ELSE "default"

\* the lang of the scraperOptions, which is only set by
\* `if (options.language) { scraperOptions.lang = options.language }`
scraperLang(options) ==
    IF Has(options.language) /\ Val(options.language) # ""
    THEN options.language ELSE {}

\* a key that also depends on the search of the options
keyWithSearch(videoId, options) ==
    << videoId, languageOrDefault(options.language), options.search >>

\* `options.language || 'default'` inside JSON.stringify, prefixed by the id
generateTranscriptCacheKey(videoId, options) ==
    << videoId, languageOrDefault(options.language) >>

\* a get that never lets an entry die
cacheGetNeverExpires(key) ==
    {e.value : e \in {x \in transcriptCache : x.key = key}}

\* NodeCache.get: the value of a live entry; an entry is dead once its expiry
\* time lies before the clock
cacheGet(key) ==
    {e.value : e \in {x \in transcriptCache : x.key = key /\ ~(x.expires < now)}}

\* the cache after NodeCache.get(key): a get that finds the entry of the key
\* dead deletes it (deleteOnExpire)
cacheAfterGet(key) ==
    {e \in transcriptCache : ~(e.key = key /\ e.expires < now)}

\* a set that empties the cache before it stores the entry
cacheSetOnly(key, value) ==
    {[key |-> key, value |-> value, expires |-> now + TRANSCRIPT_CACHE_TTL]}

\* NodeCache.set with stdTTL: insert or replace, expiry counted from now
cacheSet(key, value) ==
    {e \in transcriptCache : e.key # key}
        \cup {[key |-> key, value |-> value, expires |-> now + TRANSCRIPT_CACHE_TTL]}

\* the cache had the processed cues been stored
cacheProcessedAfterFetch(c, captions) ==
    cacheSet(generateTranscriptCacheKey(c.videoId, c.options),
             processTranscript(captions, c.options))

\* the cache after `this.transcriptCache.set(cacheKey, captions)` of call c
cacheAfterFetch(c, captions) ==
    cacheSet(generateTranscriptCacheKey(c.videoId, c.options), captions)

\* the place of the next fetch to end among the fetches that have ended
nextFetchEnded == 1 + Cardinality({j \in 1..Len(calls) : calls[j].fetchEnded > 0})

\* the call record of getTranscript up to its first await: a cache hit returns
\* the processed cached cues, a miss invokes the caption source (the cache
\* after the get is cacheAfterGet of the key); fetchEnded records the
\* order in which the awaited fetches end (0: none awaited or still pending),
\* endedAt the clock when the call ended, fetches the invocations of the
\* caption source, after the calls that had returned before
startTranscript(videoId, options, owner) ==
    LET cachedTranscript == cacheGet(generateTranscriptCacheKey(videoId, options))
        base == [videoId |-> videoId, options |-> options, owner |-> owner,
                 started |-> now,
                 after |-> {i \in 1..Len(calls) : calls[i].status = "returned"},
                 fetchEnded |-> 0, endedAt |-> now, error |-> {}]
    IN  IF Has(cachedTranscript)
        THEN base @@ [status |-> "returned", fetched |-> FALSE, fetches |-> 0,
                      value |-> processTranscript(Val(cachedTranscript), options)]
        ELSE base @@ [status |-> "fetching", fetched |-> TRUE, fetches |-> 1,
                      value |-> <<>>]

Options(language, timeRange, search, segment, format, includeMetadata) ==
    [language |-> language, timeRange |-> timeRange, search |-> search,
     segment |-> segment, format |-> format, includeMetadata |-> includeMetadata]

\* `typeof langOrOptions === 'string' ? { language: langOrOptions }
\*                                     : langOrOptions || {}`
LanguageOnly(language) == Options(language, {}, {}, {}, {}, {})

SearchFor(query, contextLines) ==
    [query |-> query, caseSensitive |-> {}, contextLines |-> contextLines]

\* the options values drawn for service calls
OptionProfiles ==
    { LanguageOnly({}),
      LanguageOnly({"en"}),
      Options({}, {[start |-> {1}, end |-> {}]}, {SearchFor(<<"b">>, {})},
              {[method |-> {"smart"}, count |-> {2}]}, {"merged"}, {TRUE}) }

\* a direct getTranscript(videoId, options) call. The requests drawn: for
\* "v1" the two profiles without a language, which share a key and differ in
\* their filters; for "v2" the two without filters, one of them in a
\* language that the video has no captions in
GetTranscript ==
    \E videoId \in VideoIds : \E options \in OptionProfiles :
        /\ Len(calls) < MaxCalls
        /\ IF videoId = "v1" THEN options.language = {} ELSE options.search = {}
        /\ calls' = Append(calls, startTranscript(videoId, options, "direct"))
        /\ transcriptCache' =
               cacheAfterGet(generateTranscriptCacheKey(videoId, options))
        /\ UNCHANGED << now, enh, filterVars, handlerVars >>

\* getTranscript(videoId) or getTranscript(videoId, 'default') by clients
\* that do not wait for one another: the two requests of one video share a
\* key, and the caption source has no cues for the language "default"
GetTranscriptConcurrent ==
    \E videoId \in VideoIds : \E language \in {{}, {"default"}} :
        /\ Len(calls) < MaxCalls
        /\ calls' = Append(calls,
                        startTranscript(videoId, LanguageOnly(language), "direct"))
        /\ transcriptCache' =
               cacheAfterGet(generateTranscriptCacheKey(videoId,
                                                        LanguageOnly(language)))
        /\ UNCHANGED << now, enh, filterVars, handlerVars >>

\* getTranscript(videoId) or getTranscript(videoId, language) by a client
\* that awaits every call before it makes the next; the language strings
\* passed are those of the videos, "default" and the empty string
GetTranscriptAwaited ==
    \E videoId \in {"v1"} :
    \E language \in Optional(Languages \cup {"default", ""}) :
        /\ Len(calls) < MaxAwaited
        /\ \A i \in 1..Len(calls) : calls[i].status # "fetching"
        /\ calls' = Append(calls,
                        startTranscript(videoId, LanguageOnly(language), "direct"))
        /\ transcriptCache' =
               cacheAfterGet(generateTranscriptCacheKey(videoId,
                                                        LanguageOnly(language)))
        /\ UNCHANGED << now, enh, filterVars, handlerVars >>

\* `await getSubtitles(...)` resolves: the cues are cached, processed, returned
FetchResolve ==
    \E i \in 1..Len(calls) :
        /\ calls[i].status = "fetching"
        /\ LET captions == Subtitles(calls[i].videoId, scraperLang(calls[i].options))
           IN  /\ transcriptCache' = cacheAfterFetch(calls[i], captions)
               /\ calls' = [calls EXCEPT
                      ![i].status = "returned",
                      ![i].fetchEnded = nextFetchEnded,
                      ![i].endedAt = now,
                      ![i].value = processTranscript(captions, calls[i].options)]
        /\ UNCHANGED << now, enh, filterVars, handlerVars >>

\* the values getSubtitles may reject with: an Error, whose message tells
\* why (a video without captions in the language has none to give, any other
\* request failed in transport), or a value that is not an Error
FetchFailure(videoID, lang) ==
    { [instanceofError |-> TRUE,
       message |-> IF Subtitles(videoID, lang) = <<>>
                   THEN "CaptionUnavailable" ELSE "SourceError"],
      [instanceofError |-> FALSE, message |-> "rejected"] }

\* the catch block of getTranscript: the message of an Error is kept and the
\* Error becomes the originalError; any other value is replaced by
\* new Error('Unknown error')
TranscriptError(c, error) ==
    LET errorMessage == IF error.instanceofError THEN error.message
                        ELSE "Unknown error"
    IN  [name |-> "TranscriptError",
         message |-> << "Failed to fetch transcript: ", errorMessage >>,
         videoId |-> c.videoId, options |-> c.options,
         originalError |-> IF error.instanceofError THEN error
                           ELSE [instanceofError |-> TRUE,
                                 message |-> errorMessage]]

\* a rejection that leaves the first cue of the sequence in the cache
FetchRejectStoresPartial ==
    \E i \in 1..Len(calls) :
    \E error \in FetchFailure(calls[i].videoId, scraperLang(calls[i].options)) :
        /\ calls[i].status = "fetching"
        /\ calls' = [calls EXCEPT
               ![i].status = "failed",
               ![i].fetchEnded = nextFetchEnded,
               ![i].endedAt = now,
               ![i].error = {TranscriptError(calls[i], error)}]
        /\ transcriptCache' =
               cacheSet(generateTranscriptCacheKey(calls[i].videoId, calls[i].options),
                        SubSeq(Subtitles(calls[i].videoId, scraperLang(calls[i].options)),
                               1, 1))
        /\ UNCHANGED << now, enh, filterVars, handlerVars >>

\* `await getSubtitles(...)` rejects: getTranscript throws a TranscriptError
FetchReject ==
    \E i \in 1..Len(calls) :
    \E error \in FetchFailure(calls[i].videoId, scraperLang(calls[i].options)) :
        /\ calls[i].status = "fetching"
        /\ calls' = [calls EXCEPT
               ![i].status = "failed",
               ![i].fetchEnded = nextFetchEnded,
               ![i].endedAt = now,
               ![i].error = {TranscriptError(calls[i], error)}]
        /\ UNCHANGED << transcriptCache, now, enh, filterVars, handlerVars >>

\* time passes; the clock starts with the first call. The cache checks for
\* dead entries every checkperiod: an entry that has been dead for a whole
\* period is gone, and one that died later is gone if a check came after
\* its death (checked)
Tick ==
    \E checked \in BOOLEAN :
        /\ calls # <<>>
        /\ now < MaxTicks * TickSeconds
        /\ now' = now + TickSeconds
        /\ transcriptCache' =
               {e \in transcriptCache :
                   IF checked THEN ~(e.expires < now')
                   ELSE now' < e.expires + checkperiod}
        /\ UNCHANGED << calls, enh, filterVars, handlerVars >>

-----------------------------------------------------------------------------
(* YouTubeService.getEnhancedTranscript and formatTranscript *)

\* formatTimestamp of youtube-service.ts: minutes and seconds both padded
formatTimestamp(milliseconds) == formatTime(milliseconds)

\* the metadata snapshot of one videos.list response, {} standing for null
videoSnapshot(details) ==
    IF Len(details.items) = 0 THEN {}
    ELSE {[id |-> details.items[1].id, title |-> details.items[1].title]}

\* videoDetails.map(details => ...): one snapshot or null ({}) per lookup
videoMetadata(videoDetails) ==
    [k \in 1..Len(videoDetails) |-> videoSnapshot(videoDetails[k])]

\* a list kept as it is, null entries included
keepAll(list) == list

\* .filter(Boolean): the null entries are removed
filterBoolean(list) == AtIndices(list, {k \in 1..Len(list) : Has(list[k])})

formatTranscript(segs, videoDetails, options) ==
    LET format == OrElse(options.format, "raw")
    IN  [segments |-> segs,
         totalSegments |-> Len(segs),
         duration |-> [num |-> Sum(segs, LAMBDA c : c.duration), den |-> 1000],
         format |-> format,
         metadata |-> IF options.includeMetadata = {TRUE}
                      THEN {filterBoolean(videoMetadata(videoDetails))}
                      ELSE {},
         text |-> IF format = "timestamped"
                  THEN {join([k \in 1..Len(segs) |->
                                 timestampedLine(formatTimestamp(segs[k].offset),
                                                 segs[k].text)], <<"\n">>)}
                  ELSE IF format = "merged"
                  THEN {join([k \in 1..Len(segs) |-> segs[k].text], <<" ">>)}
                  ELSE {}]

\* the transcripts concatenated without the id of their video
combineUntagged(videoIds, transcripts) ==
    Flatten([index \in 1..Len(videoIds) |-> transcripts[index]])

\* the transcripts tagged and concatenated from the last id to the first
combineReversed(videoIds, transcripts) ==
    Flatten([r \in 1..Len(videoIds) |->
        LET index == Len(videoIds) + 1 - r
        IN  IF Len(videoIds) > 1
            THEN [k \in 1..Len(transcripts[index]) |->
                     transcripts[index][k] @@ [videoId |-> videoIds[index]]]
            ELSE transcripts[index]])

\* the forEach over the resolved transcripts: every cue gets the id of its
\* video when several videos were asked for, and the lists are concatenated
combineSegments(videoIds, transcripts) ==
    Flatten([index \in 1..Len(videoIds) |->
        IF Len(videoIds) > 1
        THEN [k \in 1..Len(transcripts[index]) |->
                 transcripts[index][k] @@ [videoId |-> videoIds[index]]]
        ELSE transcripts[index]])

\* the options values drawn for getEnhancedTranscript: those above and a
\* search that keeps one line of context
EnhancedProfiles ==
    OptionProfiles \cup
    { Options({}, {}, {SearchFor(<<"a">>, {1})}, {}, {"timestamped"}, {TRUE}) }

VideoIdLists ==
    {ids \in UNION {[1..n -> VideoIds] : n \in 1..MaxVideos} : TRUE}

\* getEnhancedTranscript(videoIds, options): one getTranscript per id is
\* started, in list order, before the first await
EnhStart ==
    \E videoIds \in VideoIdLists : \E options \in EnhancedProfiles :
        /\ enh = Idle
        /\ Len(calls) + Len(videoIds) <= MaxCalls
        /\ calls' = calls \o [k \in 1..Len(videoIds) |->
                                 startTranscript(videoIds[k], options, "enh")]
        /\ enh' = [op |-> "getEnhancedTranscript", videoIds |-> videoIds,
                   options |-> options, stage |-> "transcripts",
                   first |-> Len(calls), combined |-> <<>>, lookups |-> <<>>,
                   result |-> {}]
        /\ transcriptCache' =
               {e \in transcriptCache : \A k \in 1..Len(videoIds) :
                   e \in cacheAfterGet(
                            generateTranscriptCacheKey(videoIds[k], options))}
        /\ UNCHANGED << now, filterVars, handlerVars >>

\* the getTranscript calls of the running getEnhancedTranscript
Children == {enh.first + k : k \in 1..Len(enh.videoIds)}

\* Promise.all(transcriptPromises) rejects as soon as one getTranscript
\* throws; the catch block logs and rethrows
EnhTranscriptsReject ==
    /\ enh.op = "getEnhancedTranscript"
    /\ enh.stage = "transcripts"
    /\ \E i \in Children : calls[i].status = "failed"
    /\ enh' = [enh EXCEPT !.stage = "raised"]
    /\ UNCHANGED << transcriptCache, now, calls, filterVars, handlerVars >>

\* Promise.all(transcriptPromises) resolves: the transcripts are combined
\* and one getVideoDetails per id is issued
EnhTranscriptsResolve ==
    /\ enh.op = "getEnhancedTranscript"
    /\ enh.stage = "transcripts"
    /\ \A i \in Children : calls[i].status = "returned"
    /\ enh' = [enh EXCEPT
           !.stage = "details",
           !.combined = combineSegments(enh.videoIds,
               [k \in 1..Len(enh.videoIds) |-> calls[enh.first + k].value])]
    /\ UNCHANGED << transcriptCache, now, calls, filterVars, handlerVars >>

\* Promise.all(videoDetailsPromises) settles: each lookup found the video,
\* found nothing, or threw; a throw is rethrown, otherwise the combined cues
\* are processed and formatted
EnhDetails ==
    /\ enh.op = "getEnhancedTranscript"
    /\ enh.stage = "details"
    /\ \E outcome \in [1..Len(enh.videoIds) -> {"found", "none", "throws"}] :
         enh' =
             IF \E k \in 1..Len(enh.videoIds) : outcome[k] = "throws"
             THEN [enh EXCEPT !.stage = "raised", !.lookups = outcome]
             ELSE [enh EXCEPT
                     !.stage = "returned",
                     !.lookups = outcome,
                     !.result =
                        {formatTranscript(
                            processTranscript(enh.combined, enh.options),
                            [k \in 1..Len(enh.videoIds) |->
                                [items |-> IF outcome[k] = "found"
                                           THEN <<VideoItem(enh.videoIds[k])>>
                                           ELSE <<>>]],
                            enh.options)}]
    /\ UNCHANGED << transcriptCache, now, calls, filterVars, handlerVars >>

\* the service and the handler before any call; the filter harness is unused
Init ==
    /\ segments = <<>>
    /\ call = Idle
    /\ result = <<>>
    /\ prev = <<>>
    /\ ServiceIdle
    /\ HandlerIdle

\* the service under direct getTranscript calls, with time passing
Next ==
    \/ GetTranscript
    \/ FetchResolve
    \/ FetchReject
    \/ Tick

\* the service under getTranscript and getEnhancedTranscript calls
NextEnhanced ==
    \/ GetTranscript
    \/ FetchResolve
    \/ FetchReject
    \/ EnhStart
    \/ EnhTranscriptsReject
    \/ EnhTranscriptsResolve
    \/ EnhDetails

\* the service under the calls of clients that share keys, with time passing
NextConcurrent ==
    \/ GetTranscriptConcurrent
    \/ FetchResolve
    \/ FetchReject
    \/ Tick

\* the service under the awaited calls of one client, with time passing
NextAwaited ==
    \/ GetTranscriptAwaited
    \/ FetchResolve
    \/ FetchReject
    \/ Tick

Spec == Init /\ [][Next]_vars

SpecConcurrent == Init /\ [][NextConcurrent]_vars

SpecAwaited == Init /\ [][NextAwaited]_vars

SpecEnhanced == Init /\ [][NextEnhanced]_vars

-----------------------------------------------------------------------------
(* The pipeline harness: filters composed, segmentTranscript, merged format *)

ComposeRanges == [start : Optional({0, 1}), end : Optional({0, 2})]

ComposeSearches ==
    [query : {<<"a">>, <<"b">>, <<" ">>}, caseSensitive : {{}},
     contextLines : Optional({0, 1})]

\* a time range and a search in one request: processTranscript of the
\* service, the filter blocks of the handler
ApplyCompose ==
    \E impl \in {"service", "handler"} :
    \E timeRange \in ComposeRanges : \E search \in ComposeSearches :
        /\ call = Idle
        /\ Len(segments) > 0
        /\ call' = [op |-> "compose", impl |-> impl, timeRange |-> timeRange,
                    search |-> search]
        /\ result' =
             IF impl = "service"
             THEN processTranscript(segments,
                      Options({}, {timeRange}, {search}, {}, {}, {}))
             ELSE handlerFilters(segments,
                      {[timeRange |-> {timeRange}, search |-> {search},
                        segment |-> {}]}).filteredTranscript.captions
        /\ UNCHANGED << segments, prev, serviceVars, handlerVars >>

\* segmentTranscript of the service on its own
ApplySegment ==
    \E segmentOptions \in SegmentSpecs :
        /\ call = Idle
        /\ call' = [op |-> "segment", segmentOptions |-> segmentOptions]
        /\ result' = segmentTranscript(segments, segmentOptions)
        /\ UNCHANGED << segments, prev, serviceVars, handlerVars >>

\* the merged format: formatTranscript of the service, the format block of
\* the handler on a flat transcript
ApplyMerged ==
    \E impl \in {"service", "handler"} :
        /\ call = Idle
        /\ call' = [op |-> "merged", impl |-> impl]
        /\ result' =
             IF impl = "service"
             THEN Val(formatTranscript(segments, <<>>,
                          Options({}, {}, {}, {}, {"merged"}, {})).text)
             ELSE handlerFormat(Flat(segments), "merged")
        /\ UNCHANGED << segments, prev, serviceVars, handlerVars >>

\* the cues drawn for the combined run: two texts, of which the query "b"
\* matches one, at two offsets
CombinedCues ==
    [text : {<<"a">>, <<"A", "b">>}, offset : {0, 1000}, duration : {1000}]

\* the options drawn for the combined run: a time range that cuts at the
\* start or at the end, a search with or without a line of context, a
\* segmentation
CombinedOptions ==
    { Options({}, timeRange, search, segment, {}, {}) :
        timeRange \in { {}, {[start |-> {1}, end |-> {}]},
                            {[start |-> {}, end |-> {1}]} },
        search \in {{}} \cup {{SearchFor(query, contextLines)} :
                        query \in {<<"a">>, <<"b">>}, contextLines \in {{}, {1}}},
        segment \in { {}, {[method |-> {"smart"}, count |-> {2}]} } }

\* getEnhancedTranscript(["v1", "v2"], options) on a caption source that
\* holds the drawn sequence cut at k: one getTranscript per id is started, in
\* list order, before the first await (each reads the cache and, on a miss,
\* invokes the caption source)
CombinedStart ==
    \E k \in 0..MaxLen : \E options \in CombinedOptions :
        /\ call = Idle
        /\ enh = Idle
        /\ Len(segments) > 0
        /\ k <= Len(segments)
        /\ Len(calls) + 2 <= MaxCalls
        /\ LET videoIds == << "v1", "v2" >>
           IN  /\ call' = [op |-> "combined",
                           raws |-> << SubSeq(segments, 1, k),
                                       SubSeq(segments, k + 1, Len(segments)) >>]
               /\ calls' = calls \o [v \in 1..2 |->
                                        startTranscript(videoIds[v], options, "enh")]
               /\ enh' = [op |-> "getEnhancedTranscript", videoIds |-> videoIds,
                          options |-> options, stage |-> "transcripts",
                          first |-> Len(calls), combined |-> <<>>,
                          lookups |-> <<>>, result |-> {}]
               /\ transcriptCache' =
                      {e \in transcriptCache : \A v \in 1..2 :
                          e \in cacheAfterGet(
                                   generateTranscriptCacheKey(videoIds[v], options))}
        /\ UNCHANGED << segments, result, prev, now, handlerVars >>

\* getEnhancedTranscript over two videos, event by event: the call, the
\* fetches answered in any order, the two Promise.all, the lookups answered
NextCombined ==
    \/ CombinedStart
    \/ FetchResolve
    \/ FetchReject
    \/ EnhTranscriptsReject
    \/ EnhTranscriptsResolve
    \/ EnhDetails

PipelineNext ==
    \/ ApplyCompose
    \/ ApplySegment
    \/ ApplyMerged

SpecPipeline == InitFilter /\ [][PipelineNext]_vars

\* the caption source of the combined run holds a drawn cue sequence; the
\* service and the handler are idle
InitCombined ==
    /\ segments \in CueSequences(CombinedCues)
    /\ call = Idle
    /\ result = <<>>
    /\ prev = <<>>
    /\ ServiceIdle
    /\ HandlerIdle

SpecCombined == InitCombined /\ [][NextCombined]_vars

-----------------------------------------------------------------------------
(* The enhanced-transcript request handler (index.ts) *)

\* the error texts of the per-video loop, as sequences of their parts
ErrNotFound == << "Video not found or not accessible" >>

\* `No transcript available for this video${language ? ...}`
ErrNoTranscript(language) ==
    IF Has(language) /\ Val(language) # ""
    THEN << "No transcript available for this video", " in language: ",
            Val(language) >>
    ELSE << "No transcript available for this video" >>

\* `Error processing video: ${error}` of the per-video catch block
ErrProcessing(error) == << "Error processing video: ", error >>

\* an error path that pushes nothing
dropError(res, videoId, error) == res

\* results.push({ videoId, error })
pushError(res, videoId, error) ==
    Append(res, [videoId |-> videoId, error |-> error])

\* the result object of a processed video, pushed at the end of the try block
videoResult(videoId, video, transcriptData, req) ==
    LET filtered == handlerFilters(transcriptData, req.filters)
        base == [videoId |-> videoId,
                 transcript |-> handlerFormat(filtered.filteredTranscript,
                                              OrElse(req.format, "timestamped")),
                 search |-> filtered.search]
    IN  IF OrElse(req.includeMetadata, TRUE)
        THEN base @@
             [metadata |->
                 {[title |-> video.title,
                   language |-> languageOrDefault(req.language),
                   captionCount |-> Len(transcriptData),
                   filteredCaptionCount |->
                       filteredCaptionCount(filtered.filteredTranscript)]}]
        ELSE base @@ [metadata |-> {}]

\* the per-video result for a drawn cue sequence as the transcript of a found
\* video, under a request with a search, the raw format and metadata
ApplyReport ==
    \E search \in ComposeSearches :
        /\ call = Idle
        /\ Len(segments) > 0
        /\ call' = [op |-> "report", search |-> search]
        /\ result' = videoResult("v1", VideoItem("v1"), segments,
                          [filters |-> {[timeRange |-> {}, search |-> {search},
                                         segment |-> {}]},
                           language |-> {}, format |-> {"raw"},
                           includeMetadata |-> {}])
        /\ UNCHANGED << segments, prev, serviceVars, handlerVars >>

SpecReport == InitFilter /\ [][ApplyReport]_vars

\* the filters drawn for handler requests
FilterProfiles ==
    { {},
      {[timeRange |-> {[start |-> {1}, end |-> {}]},
        search |-> {SearchFor(<<"b">>, {0})}, segment |-> {}]},
      {[timeRange |-> {}, search |-> {SearchFor(<<"c">>, {})}, segment |-> {}]},
      {[timeRange |-> {}, search |-> {},
        segment |-> {[method |-> {"equal"}, count |-> {2}]}]},
      {[timeRange |-> {}, search |-> {},
        segment |-> {[method |-> {"smart"}, count |-> {}]}]},
      {[timeRange |-> {[start |-> {2}, end |-> {1}]}, search |-> {},
        segment |-> {}]},
      {[timeRange |-> {}, search |-> {SearchFor(<<>>, {})}, segment |-> {}]} }

HandlerRequests ==
    [op : {"enhanced-transcript"}, videoIds : VideoIdLists,
     filters : FilterProfiles, language : Optional(Languages \cup {""}),
     format : {{}, {"raw"}, {"merged"}}, includeMetadata : {{}, {FALSE}}]

\* the position after the iteration for videoIds[i] has ended
nextVideo(i) ==
    IF i = Len(hreq.videoIds) THEN [at |-> "done", i |-> i]
    ELSE [at |-> "details", i |-> i + 1]

\* the input schema of the tool: 1..5 video ids, start and end at least 0,
\* a query of at least one character, contextLines in 0..5, count in 1..10
schemaAccepts(req) ==
    /\ Len(req.videoIds) >= 1 /\ Len(req.videoIds) <= 5
    /\ Has(req.filters) =>
           LET f == Val(req.filters)
           IN  /\ Has(f.timeRange) =>
                      /\ Has(Val(f.timeRange).start) =>
                             Val(Val(f.timeRange).start) >= 0
                      /\ Has(Val(f.timeRange).end) =>
                             Val(Val(f.timeRange).end) >= 0
               /\ Has(f.search) =>
                      /\ Len(Val(f.search).query) >= 1
                      /\ Has(Val(f.search).contextLines) =>
                             /\ Val(Val(f.search).contextLines) >= 0
                             /\ Val(Val(f.search).contextLines) <= 5
               /\ (Has(f.segment) /\ Has(Val(f.segment).count)) =>
                      /\ Val(Val(f.segment).count) >= 1
                      /\ Val(Val(f.segment).count) <= 10

\* a request the schema does not admit never reaches the handler function
HandlerReject ==
    /\ hreq = Idle
    /\ \E req \in HandlerRequests :
           /\ ~schemaAccepts(req)
           /\ hreq' = req
    /\ hpc' = [at |-> "rejected", i |-> 0]
    /\ UNCHANGED << hvideo, hdata, results, hlog, filterVars, serviceVars >>

\* a request the schema admits arrives
HandlerStart ==
    /\ hreq = Idle
    /\ \E req \in HandlerRequests :
           /\ schemaAccepts(req)
           /\ hreq' = req
    /\ hpc' = [at |-> "details", i |-> 1]
    /\ UNCHANGED << hvideo, hdata, results, hlog, filterVars, serviceVars >>

\* `youtubeService.getVideoDetails(videoId)` is called: the lookup is issued
\* and the handler waits for its answer
HandlerDetails ==
    /\ hpc.at = "details"
    /\ hlog' = Append(hlog, <<"getVideoDetails", hreq.videoIds[hpc.i]>>)
    /\ hpc' = [hpc EXCEPT !.at = "awaitingDetails"]
    /\ UNCHANGED << hreq, hvideo, hdata, results, filterVars, serviceVars >>

\* a lookup whose failure is reported and followed by the caption fetch
HandlerDetailsThenFetch ==
    \E outcome \in {"found", "none", "throws"} :
        /\ hpc.at = "awaitingDetails"
        /\ IF outcome = "found"
           THEN /\ hvideo' = {VideoItem(hreq.videoIds[hpc.i])}
                /\ hpc' = [hpc EXCEPT !.at = "transcript"]
                /\ UNCHANGED results
           ELSE /\ results' = pushError(results, hreq.videoIds[hpc.i],
                       IF outcome = "none" THEN ErrNotFound
                       ELSE ErrProcessing("getVideoDetails"))
                /\ hpc' = [hpc EXCEPT !.at = "transcript"]
                /\ hvideo' = {VideoItem(hreq.videoIds[hpc.i])}
        /\ UNCHANGED << hreq, hdata, hlog, filterVars, serviceVars >>

\* the await on getVideoDetails ends, with the video, with nothing or with an
\* exception, and the `!video` test
HandlerDetailsAwait ==
    \E outcome \in {"found", "none", "throws"} :
        /\ hpc.at = "awaitingDetails"
        /\ IF outcome = "found"
           THEN /\ hvideo' = {VideoItem(hreq.videoIds[hpc.i])}
                /\ hpc' = [hpc EXCEPT !.at = "transcript"]
                /\ UNCHANGED results
           ELSE /\ results' = pushError(results, hreq.videoIds[hpc.i],
                       IF outcome = "none" THEN ErrNotFound
                       ELSE ErrProcessing("getVideoDetails"))
                /\ hpc' = nextVideo(hpc.i)
                /\ hvideo' = {}
        /\ UNCHANGED << hreq, hdata, hlog, filterVars, serviceVars >>

\* `youtubeService.getTranscript(videoId, language)` up to its first await
HandlerTranscript ==
    /\ hpc.at = "transcript"
    /\ LET c == startTranscript(hreq.videoIds[hpc.i], LanguageOnly(hreq.language),
                                "handler")
       IN  /\ calls' = Append(calls, c)
           /\ hlog' = IF c.fetched
                      THEN Append(hlog, <<"getSubtitles", c.videoId>>)
                      ELSE hlog
           /\ hpc' = [hpc EXCEPT !.at = "awaiting"]
           /\ transcriptCache' =
                  cacheAfterGet(generateTranscriptCacheKey(c.videoId, c.options))
    /\ UNCHANGED << hreq, hvideo, hdata, results, now, enh, filterVars >>

\* the await on getTranscript ends: with the cues, or with its exception,
\* whose text `${error}` is given by the last part of its message
HandlerAwait ==
    /\ hpc.at = "awaiting"
    /\ calls[Len(calls)].status # "fetching"
    /\ IF calls[Len(calls)].status = "returned"
       THEN /\ hdata' = calls[Len(calls)].value
            /\ hpc' = [hpc EXCEPT !.at = "filters"]
            /\ UNCHANGED << results, hvideo >>
       ELSE /\ results' = pushError(results, hreq.videoIds[hpc.i],
                           ErrProcessing(Val(calls[Len(calls)].error).message[2]))
            /\ hpc' = nextVideo(hpc.i)
            /\ hvideo' = {}
            /\ hdata' = <<>>
    /\ UNCHANGED << hreq, hlog, filterVars, serviceVars >>

\* the rest of the try block: the empty-transcript test, the filters, the
\* format and the push of the result; an exception raised on the way (threw)
\* is caught by the per-video catch block
HandlerProcess ==
    \E threw \in BOOLEAN :
        /\ hpc.at = "filters"
        /\ results' =
             IF Len(hdata) = 0
             THEN pushError(results, hreq.videoIds[hpc.i],
                            ErrNoTranscript(hreq.language))
             ELSE IF threw
             THEN pushError(results, hreq.videoIds[hpc.i],
                            ErrProcessing("Error"))
             ELSE Append(results,
                      videoResult(hreq.videoIds[hpc.i], Val(hvideo), hdata, hreq))
        /\ hpc' = nextVideo(hpc.i)
        /\ hvideo' = {}
        /\ hdata' = <<>>
        /\ UNCHANGED << hreq, hlog, filterVars, serviceVars >>

NextHandler ==
    \/ HandlerStart
    \/ HandlerReject
    \/ HandlerDetails
    \/ HandlerDetailsAwait
    \/ HandlerTranscript
    \/ HandlerAwait
    \/ HandlerProcess
    \/ FetchResolve
    \/ FetchReject

SpecHandler == Init /\ [][NextHandler]_vars

-----------------------------------------------------------------------------
(* Claims about the filters, checked under SpecFilter *)

\* the indices within c of a matching index
WithinContext(s, matched, c) ==
    {j \in 1..Len(s) :
        \E i \in matched : (IF j >= i THEN j - i ELSE i - j) <= c}

\* C5: the service's time-range filter, for every start a >= 0 and every
\* optional end b >= 0 (b = 0 included), returns only cues with
\* offset/1000 >= a and, when b is present, (offset+duration)/1000 <= b, and
\* its output is a subsequence of the input in the original order.
C5_TimeRangeSound ==
    (call.op = "timeRange" /\ call.impl = "service") =>
        LET a == OrElse(call.timeRange.start, 0)
            b == call.timeRange.end
        IN  /\ \A i \in 1..Len(result) :
                   /\ result[i].offset >= a * 1000
                   /\ Has(b) =>
                          result[i].offset + result[i].duration <= Val(b) * 1000
            /\ IsSubsequence(result, segments)

\* C6: for a non-empty cue sequence and a non-empty query that no cue text
\* contains (after case folding unless caseSensitive), the search filter of
\* the service and that of the handler return the empty sequence.
C6_NoMatchIsEmpty ==
    ( /\ call.op = "search"
      /\ call.run = 1
      /\ segments # <<>>
      /\ call.search.query # <<>>
      /\ matchedIndices(segments, call.search.query,
                        OrElse(call.search.caseSensitive, FALSE)) = {} )
    => result = <<>>

\* C7: the service's search filter returns exactly the cues at the indices
\* within contextLines of a matching index, each once, in ascending order.
C7_SearchExactIndices ==
    (call.op = "search" /\ call.impl = "service" /\ call.run = 1) =>
        result =
            AtIndices(segments,
                WithinContext(segments,
                    matchedIndices(segments, call.search.query,
                                   OrElse(call.search.caseSensitive, FALSE)),
                    OrElse(call.search.contextLines, 0)))

\* no two cues of s share an offset
DistinctOffsets(s) ==
    \A i, j \in 1..Len(s) : i # j => s[i].offset # s[j].offset

\* C8: in the handler's search filter a request with contextLines = 0 yields
\* exactly the matching cues and no context cue (stated for sequences whose
\* offsets are pairwise distinct, so that only the context window decides).
C8_ZeroContextOnlyMatches ==
    ( /\ call.op = "search"
      /\ call.impl = "handler"
      /\ call.run = 1
      /\ call.search.query # <<>>
      /\ call.search.contextLines = {0}
      /\ DistinctOffsets(segments) )
    => Cores(result) =
           AtIndices(segments,
               matchedIndices(segments, call.search.query,
                              OrElse(call.search.caseSensitive, FALSE)))

\* the cues of s that match the search of the call, in order
MatchingCues(s) ==
    AtIndices(Cores(s),
        matchedIndices(s, call.search.query,
                       OrElse(call.search.caseSensitive, FALSE)))

\* C9: running the search again with the same query and contextLines on its
\* own output finds the same matching cues and returns the same sequence.
C9_SearchIdempotent ==
    (call.op = "search" /\ call.run = 2) =>
        /\ MatchingCues(prev) = MatchingCues(segments)
        /\ result = prev

\* the cues an output segment holds
SegmentCues(seg) ==
    IF call.impl = "handler" THEN seg.captions ELSE seg.transcriptSegments

DigitValue(ch) == CHOOSE d \in 0..9 : Digit(d) = ch

\* seconds denoted by a rendered "MM:SS"
ClockSeconds(str) ==
    (DigitValue(str[1]) * 10 + DigitValue(str[2])) * 60
    + DigitValue(str[4]) * 10 + DigitValue(str[5])

\* segment s starts no later than segment t
StartsBefore(s, t) ==
    IF call.impl = "handler"
    THEN ClockSeconds(s.startTime) <= ClockSeconds(t.startTime)
    ELSE DoubleCmp(s.startTime, t.startTime) <= 0

\* C10: equal time-segmentation of a non-empty chronological cue sequence
\* (zero durations included) into count >= 1 windows puts every input cue in
\* exactly one output segment, the segments in non-decreasing start order,
\* in the handler's equal method and in getSegmentedTranscript.
C10_EqualSegmentsPartition ==
    (call.op = "equal") =>
        /\ result.kind = "segments"
        /\ LET all == Flatten([k \in 1..Len(result.segments) |->
                                  SegmentCues(result.segments[k])])
           IN  \A x \in Range(segments) \cup Range(all) :
                   Occurrences(all, x) = Occurrences(segments, x)
        /\ \A k \in 1..(Len(result.segments) - 1) :
               StartsBefore(result.segments[k], result.segments[k + 1])

-----------------------------------------------------------------------------
(* Claims about the service, checked under Spec and SpecEnhanced *)

\* C2: when getEnhancedTranscript is called with several video ids and the
\* caption fetch or the metadata lookup of one of them fails, the call does
\* not raise: it still returns a result with the cues of the other videos.
C2_EnhancedIsolatesFailures ==
    (enh.op = "getEnhancedTranscript" /\ Len(enh.videoIds) > 1) =>
        enh.stage # "raised"

\* calls i and j ask for the same (videoId, language): the request they
\* make of the caption source is the same
SameRequestKey(i, j) ==
    /\ calls[i].videoId = calls[j].videoId
    /\ scraperLang(calls[i].options) = scraperLang(calls[j].options)

\* call j started after call i had returned a cue sequence, within the TTL
StartedAfterWithinTTL(i, j) ==
    /\ i \in calls[j].after
    /\ calls[j].started - calls[i].started <= TRANSCRIPT_CACHE_TTL

\* C3: of two getTranscript calls for the same (videoId, language) made
\* within the TTL window, the second starting after the first has returned a
\* cue sequence (possibly empty), at most one invokes the caption source,
\* whatever options each call carries.
C3_AtMostOneFetch ==
    \A i, j \in 1..Len(calls) :
        (SameRequestKey(i, j) /\ StartedAfterWithinTTL(i, j)) =>
            ~(calls[i].fetched /\ calls[j].fetched)

\* a later call with other filter options is served from the entry that an
\* earlier call fetched, after time has passed
C3_Witness ==
    \E i, j \in 1..Len(calls) :
        /\ SameRequestKey(i, j) /\ StartedAfterWithinTTL(i, j)
        /\ calls[i].fetched /\ ~calls[j].fetched
        /\ calls[j].status = "returned"
        /\ calls[j].options # calls[i].options
        /\ calls[j].started > calls[i].started

\* the cue sequences the caption source returns for the requests of a key
RawOfKey(key) ==
    {Subtitles(v, l) : <<v, l>> \in
        {p \in VideoIds \X Optional(Languages) :
            generateTranscriptCacheKey(p[1], LanguageOnly(p[2])) = key}}

\* C4: every cache entry holds the complete unfiltered cue sequence that the
\* caption source returned for its key (never a filtered, segmented, tagged
\* or reordered one), and a call served from the cache returns the pipeline
\* applied to that raw sequence.
C4_CacheHoldsRaw ==
    /\ \A e \in transcriptCache : e.value \in RawOfKey(e.key)
    /\ \A i \in 1..Len(calls) :
           (calls[i].status = "returned" /\ ~calls[i].fetched) =>
               calls[i].value =
                   processTranscript(
                       Subtitles(calls[i].videoId, scraperLang(calls[i].options)),
                       calls[i].options)

\* a call carrying a search was served from the cache, its output differs
\* from the raw sequence, and the entry still holds the raw sequence
C4_Witness ==
    \E i \in 1..Len(calls) :
        /\ calls[i].status = "returned" /\ ~calls[i].fetched
        /\ Has(calls[i].options.search)
        /\ calls[i].value # <<>>
        /\ calls[i].value # Subtitles(calls[i].videoId, scraperLang(calls[i].options))
        /\ \E e \in transcriptCache :
               /\ e.key = generateTranscriptCacheKey(calls[i].videoId,
                                                     calls[i].options)
               /\ e.value = Subtitles(calls[i].videoId, scraperLang(calls[i].options))

-----------------------------------------------------------------------------
(* Claims about failed fetches, checked under Spec *)

\* calls i and j use the same cache key
SameCacheKey(i, j) ==
    generateTranscriptCacheKey(calls[i].videoId, calls[i].options)
        = generateTranscriptCacheKey(calls[j].videoId, calls[j].options)

\* C21: a caption-source call that fails, or that never completes, writes
\* nothing to the cache: every entry was written by a fetch that succeeded
\* and holds its complete sequence, and a call is served from the cache only
\* after a successful fetch for its key, so that after failures alone a later
\* call for the key fetches again.
C21_FailedFetchWritesNothing ==
    /\ \A e \in transcriptCache :
           \E i \in 1..Len(calls) :
               /\ calls[i].fetched /\ calls[i].status = "returned"
               /\ generateTranscriptCacheKey(calls[i].videoId, calls[i].options)
                      = e.key
               /\ e.value = Subtitles(calls[i].videoId, scraperLang(calls[i].options))
    /\ \A j \in 1..Len(calls) :
           ~calls[j].fetched =>
               \E i \in calls[j].after : SameCacheKey(i, j) /\ calls[i].fetched

\* a call failed and left no entry; a later call for the same key fetched
\* again, and its sequence is now the entry of the key
C21_Witness ==
    \E i, j \in 1..Len(calls) :
        /\ SameRequestKey(i, j)
        /\ calls[i].status = "failed"
        /\ calls[i].endedAt < calls[j].started
        /\ calls[j].fetched
        /\ calls[j].status = "returned"
        /\ \E e \in transcriptCache :
               /\ e.key = generateTranscriptCacheKey(calls[j].videoId,
                                                     calls[j].options)
               /\ e.value = Subtitles(calls[j].videoId, scraperLang(calls[j].options))

-----------------------------------------------------------------------------
(* Claims about concurrent getTranscript calls, checked under SpecConcurrent *)

KeyOf(i) == generateTranscriptCacheKey(calls[i].videoId, calls[i].options)

\* the calls whose fetch for the key has succeeded
Writers(key) ==
    {i \in 1..Len(calls) :
        calls[i].fetched /\ calls[i].status = "returned" /\ KeyOf(i) = key}

\* the writer whose fetch ended last
LastWriter(key) ==
    CHOOSE i \in Writers(key) :
        \A j \in Writers(key) : calls[j].fetchEnded <= calls[i].fetchEnded

\* the cue sequence that the fetch of call i resolved to
RawOf(i) == Subtitles(calls[i].videoId, scraperLang(calls[i].options))

\* C22: in every interleaving of getTranscript calls the entry of a key,
\* whenever present, is the complete cue sequence of the fetch for that key
\* that succeeded last, stored when that fetch ended; a key has one entry,
\* which is present as long as it has not expired, so that a fetch for
\* another key neither changes nor removes it; and every caller that
\* returned got the pipeline applied to a complete fetched sequence: its own
\* when it fetched, else that of a fetch for its key that had succeeded
\* before it started
C22_LastWriteWins ==
    /\ \A e \in transcriptCache :
           /\ Writers(e.key) # {}
           /\ e.value = RawOf(LastWriter(e.key))
           /\ e.expires = calls[LastWriter(e.key)].endedAt + TRANSCRIPT_CACHE_TTL
    /\ \A e, f \in transcriptCache : e.key = f.key => e = f
    /\ \A i \in 1..Len(calls) :
           (calls[i].fetched /\ calls[i].status = "returned")
               => \/ \E e \in transcriptCache : e.key = KeyOf(i)
                  \/ now > calls[LastWriter(KeyOf(i))].endedAt
                              + TRANSCRIPT_CACHE_TTL
    /\ \A i \in 1..Len(calls) :
           calls[i].status = "returned"
               => \E w \in (IF calls[i].fetched THEN {i}
                            ELSE Writers(KeyOf(i)) \cap calls[i].after) :
                      calls[i].value =
                          processTranscript(RawOf(w), calls[i].options)

\* two overlapping fetches for one key, which resolved to different cue
\* sequences, have both succeeded, the one started second ending first and a
\* clock tick before the other ended; the entry of the key is the sequence
\* of the fetch that ended last
C22_Witness ==
    \E i, j \in 1..Len(calls) :
        /\ i < j
        /\ KeyOf(i) = KeyOf(j)
        /\ calls[i].fetched /\ calls[j].fetched
        /\ calls[i].status = "returned" /\ calls[j].status = "returned"
        /\ calls[j].fetchEnded < calls[i].fetchEnded
        /\ calls[j].endedAt < calls[i].endedAt
        /\ RawOf(i) # RawOf(j)
        /\ \E e \in transcriptCache :
               /\ e.key = KeyOf(i)
               /\ e.value = RawOf(i)
               /\ e.expires = calls[i].endedAt + TRANSCRIPT_CACHE_TTL

-----------------------------------------------------------------------------
(* Claims about expiry and key isolation, checked under SpecAwaited *)

\* call i stored the entry of call j's key no more than one TTL before call
\* j was made
PopulatedWithinTTL(i, j) ==
    /\ i \in calls[j].after
    /\ SameCacheKey(i, j)
    /\ calls[i].fetched
    /\ calls[j].started <= calls[i].endedAt + TRANSCRIPT_CACHE_TTL

\* C23: an entry expires one TTL (3600 s) after it was stored and a read
\* does not extend its life: a call made more than one TTL after every fetch
\* that populated its key issues a new fetch, whatever was read in between
C23_ExpiryNotExtendedByRead ==
    /\ \A e \in transcriptCache :
           e.expires = calls[LastWriter(e.key)].endedAt + TRANSCRIPT_CACHE_TTL
    /\ \A j \in 1..Len(calls) :
           (\A i \in 1..Len(calls) : ~PopulatedWithinTTL(i, j))
               => calls[j].fetched

\* an entry was stored, read from the cache before its expiry, after time
\* had passed, and a third call for the key, made more than one TTL after
\* the store, fetched again
C23_Witness ==
    \E i, j, k \in 1..Len(calls) :
        /\ i < j /\ j < k
        /\ SameCacheKey(i, j) /\ SameCacheKey(j, k)
        /\ calls[i].fetched /\ calls[i].status = "returned"
        /\ ~calls[j].fetched
        /\ calls[j].started > calls[i].endedAt
        /\ calls[j].started <= calls[i].endedAt + TRANSCRIPT_CACHE_TTL
        /\ calls[k].fetched
        /\ calls[k].started > calls[i].endedAt + TRANSCRIPT_CACHE_TTL

\* C29: cache entries are isolated by (videoId, language), an absent language
\* and the literal 'default' being different requests: a call served from the
\* cache follows a fetch for its own video and its own language, and returns
\* the cues of that video in that language
C29_IsolatedByVideoAndLanguage ==
    \A j \in 1..Len(calls) :
        (calls[j].status = "returned" /\ ~calls[j].fetched) =>
            /\ \E i \in calls[j].after : SameRequestKey(i, j) /\ calls[i].fetched
            /\ calls[j].value =
                   processTranscript(
                       Subtitles(calls[j].videoId, scraperLang(calls[j].options)),
                       calls[j].options)

-----------------------------------------------------------------------------
(* Claims about getEnhancedTranscript, checked under SpecEnhanced *)

EnhReturned == enh.op = "getEnhancedTranscript" /\ enh.stage = "returned"

\* the cues of the result of the finished getEnhancedTranscript call
EnhSegments == Val(enh.result).segments

\* C16: when getEnhancedTranscript is called with more than one video id,
\* every cue of the returned combined output carries a videoId, and it is the
\* id of the video whose caption fetch produced the cue.
C16_EveryCueTagged ==
    (EnhReturned /\ Len(enh.videoIds) > 1) =>
        \A i \in 1..Len(EnhSegments) :
            /\ "videoId" \in DOMAIN EnhSegments[i]
            /\ EnhSegments[i].videoId \in Range(enh.videoIds)
            /\ Core(EnhSegments[i]) \in
                   Range(Subtitles(EnhSegments[i].videoId, scraperLang(enh.options)))

\* a call for two videos with a search that keeps context returned a cue
\* that does not match the query, tagged with the id of its video
C16_Witness ==
    /\ EnhReturned
    /\ Len(enh.videoIds) = 2
    /\ Has(enh.options.search)
    /\ Val(enh.options.search).contextLines = {1}
    /\ \E i \in 1..Len(EnhSegments) :
           /\ ~TextMatches(EnhSegments[i].text, Val(enh.options.search).query, FALSE)
           /\ "videoId" \in DOMAIN EnhSegments[i]
           /\ Core(EnhSegments[i]) \in
                  Range(Subtitles(EnhSegments[i].videoId, scraperLang(enh.options)))

\* the cues the caption source holds for the ids of the list, each with the
\* id of its video when the list has several ids, in list order
SourceCues(videoIds, language) ==
    Flatten([k \in 1..Len(videoIds) |->
        [i \in 1..Len(Subtitles(videoIds[k], language)) |->
            IF Len(videoIds) > 1
            THEN [text |-> Subtitles(videoIds[k], language)[i].text,
                  offset |-> Subtitles(videoIds[k], language)[i].offset,
                  duration |-> Subtitles(videoIds[k], language)[i].duration,
                  videoId |-> videoIds[k]]
            ELSE Subtitles(videoIds[k], language)[i]]])

\* the place of an id in a list that holds it
PlaceOf(videoIds, id) == SetMin({k \in 1..Len(videoIds) : videoIds[k] = id})

\* C17: in the combined output of getEnhancedTranscript the cues follow the
\* caller's id order (all cues of an earlier id precede all cues of a later
\* one) whatever the order in which the fetches complete, and the cues of each
\* video are in non-decreasing offset order.
C17_CallerOrderKept ==
    EnhReturned =>
        /\ IsSubsequence(EnhSegments,
                         SourceCues(enh.videoIds, scraperLang(enh.options)))
        /\ Len(enh.videoIds) > 1 =>
               \A p, q \in 1..Len(EnhSegments) :
                   p < q =>
                       \/ \E i, j \in 1..Len(enh.videoIds) :
                              /\ i < j
                              /\ enh.videoIds[i] = EnhSegments[p].videoId
                              /\ enh.videoIds[j] = EnhSegments[q].videoId
                       \/ /\ EnhSegments[p].videoId = EnhSegments[q].videoId
                          /\ \/ EnhSegments[p].offset <= EnhSegments[q].offset
                             \/ Occurrences(enh.videoIds, EnhSegments[p].videoId) > 1

\* two different videos, the fetch of the second ended before the fetch of
\* the first, and the output holds cues of the first before cues of the second
C17_Witness ==
    /\ EnhReturned
    /\ Len(enh.videoIds) = 2
    /\ enh.videoIds[1] # enh.videoIds[2]
    /\ calls[enh.first + 2].fetchEnded > 0
    /\ calls[enh.first + 1].fetchEnded > calls[enh.first + 2].fetchEnded
    /\ \E p, q \in 1..Len(EnhSegments) :
           /\ p < q
           /\ EnhSegments[p].videoId = enh.videoIds[1]
           /\ EnhSegments[q].videoId = enh.videoIds[2]

\* the lookups of the finished call that found their video
FoundLookups == {k \in 1..Len(enh.lookups) : enh.lookups[k] = "found"}

\* C18: with includeMetadata set, a video whose metadata lookup finds no item
\* contributes no entry to the metadata list (no null entry remains) and does
\* not abort the request: the call raises only when a fetch or a lookup
\* fails, and the transcript and the snapshots of the found videos are
\* returned; without includeMetadata the result carries no metadata field.
C18_MissingMetadataSkipped ==
    /\ (enh.op = "getEnhancedTranscript" /\ enh.stage = "raised") =>
           \/ \E i \in Children : calls[i].status = "failed"
           \/ \E k \in 1..Len(enh.lookups) : enh.lookups[k] = "throws"
    /\ EnhReturned =>
           /\ EnhSegments = processTranscript(enh.combined, enh.options)
           /\ IF enh.options.includeMetadata = {TRUE}
              THEN /\ Has(Val(enh.result).metadata)
                   /\ LET metadata == Val(Val(enh.result).metadata)
                      IN  /\ \A k \in 1..Len(metadata) : Has(metadata[k])
                          /\ [k \in 1..Len(metadata) |-> Val(metadata[k]).id]
                                 = AtIndices(enh.videoIds, FoundLookups)
              ELSE Val(enh.result).metadata = {}

\* of two videos the first was not found: the result has the cues and the
\* one snapshot of the second video
C18_Witness ==
    /\ EnhReturned
    /\ enh.options.includeMetadata = {TRUE}
    /\ Len(enh.videoIds) = 2
    /\ enh.lookups[1] = "none"
    /\ enh.lookups[2] = "found"
    /\ Len(Val(Val(enh.result).metadata)) = 1
    /\ Len(EnhSegments) > 0

\* C19: with includeMetadata set, the metadata list holds exactly one
\* snapshot per distinct found video of the request: an id that occurs more
\* than once in the input list yields one snapshot.
C19_OneSnapshotPerDistinctVideo ==
    (EnhReturned /\ enh.options.includeMetadata = {TRUE}) =>
        Len(Val(Val(enh.result).metadata)) =
            Cardinality({enh.videoIds[k] : k \in FoundLookups})

-----------------------------------------------------------------------------
(* Claims about the request handler, checked under SpecHandler *)

IsErrorPayload(r) == "error" \in DOMAIN r /\ ~("transcript" \in DOMAIN r)
IsTranscriptPayload(r) == "transcript" \in DOMAIN r /\ ~("error" \in DOMAIN r)

\* C1: for N video ids the handler returns exactly N entries, entry i carrying
\* videoIds[i], each a transcript payload or an error payload, whatever the
\* per-video outcomes; while the loop runs, every video before the current one
\* has its entry, so no failure keeps a later video from being processed.
C1_OneEntryPerVideo ==
    /\ hpc.at \in {"details", "awaitingDetails", "transcript", "awaiting",
                  "filters"} =>
           Len(results) = hpc.i - 1
    /\ hpc.at = "done" => Len(results) = Len(hreq.videoIds)
    /\ \A k \in 1..Len(results) :
           /\ results[k].videoId = hreq.videoIds[k]
           /\ IsErrorPayload(results[k]) \/ IsTranscriptPayload(results[k])

\* a request for two videos has ended: the first video failed, the second
\* was processed and carries a transcript
C1_Witness ==
    /\ hpc.at = "done"
    /\ Len(hreq.videoIds) = 2
    /\ Len(results) = 2
    /\ IsErrorPayload(results[1])
    /\ IsTranscriptPayload(results[2])

-----------------------------------------------------------------------------
(* Claims about the composed pipeline, checked under SpecPipeline *)

\* the time-range predicate of the specification: start defaults to 0, an
\* end that is present bounds the end of the cue
InTimeRange(c, timeRange) ==
    /\ c.offset >= OrElse(timeRange.start, 0) * 1000
    /\ Has(timeRange.end) => c.offset + c.duration <= Val(timeRange.end) * 1000

\* the cues of s inside the time range, in order
Windowed(s, timeRange) ==
    AtIndices(s, {i \in 1..Len(s) : InTimeRange(s[i], timeRange)})

\* C13: filters are composed in the order time range, then search: when a
\* request carries both, every cue of the output, context cues included, is
\* inside the time range, and the output is what the search returns on the
\* time-windowed subsequence (context comes from neighbours within it).
C13_TimeRangeThenSearch ==
    call.op = "compose" =>
        /\ \A i \in 1..Len(result) : InTimeRange(result[i], call.timeRange)
        /\ Cores(result) =
               Cores(SearchOf(call.impl, Windowed(segments, call.timeRange),
                              call.search))

\* C14: segmentTranscript returns its input, element for element and in the
\* same order, for both methods, every count >= 1 and every input length.
C14_SegmentIsIdentity ==
    call.op = "segment" => result = segments

\* the equal method cut three cues into slices of two and one
C14_Witness ==
    /\ call.op = "segment"
    /\ call.segmentOptions.count = {2}
    /\ call.segmentOptions.method # {"smart"}
    /\ Len(segments) = 3
    /\ result = segments

\* where the text of cue k starts in the merged text (1-based)
MergedStart(s, k) ==
    1 + Sum(SubSeq(s, 1, k - 1), LAMBDA c : Len(c.text) + 1)

\* C15: for a flat cue sequence and format = merged the rendered text is the
\* texts of all cues, in sequence order, joined by single spaces, with no
\* timestamp marker and no cue omitted or repeated; the empty sequence
\* renders as the empty string.
C15_MergedIsJoinedTexts ==
    call.op = "merged" =>
        /\ Len(result) = Sum(segments, LAMBDA c : Len(c.text))
                         + (IF Len(segments) = 0 THEN 0 ELSE Len(segments) - 1)
        /\ \A k \in 1..Len(segments) :
               /\ SubSeq(result, MergedStart(segments, k),
                         MergedStart(segments, k) + Len(segments[k].text) - 1)
                      = segments[k].text
               /\ k < Len(segments) =>
                      result[MergedStart(segments, k) + Len(segments[k].text)] = " "

\* three cues with two different texts were rendered by the handler
C15_Witness ==
    /\ call.op = "merged"
    /\ call.impl = "handler"
    /\ Len(segments) = 3
    /\ segments[1].text # segments[2].text
    /\ Len(result) > 3

-----------------------------------------------------------------------------
(* Claims about the smart segmentation, checked under SpecSmart *)

\* the indices of the cues that follow a pause above the threshold
SignificantPauses(s) ==
    LET pause == significantPause(s)
    IN  {i \in 2..Len(s) : isSignificantPause(gapBefore(s, i), pause)}

\* the cues of all segments of a segmented transcript, in order
SegmentedCues(r) ==
    IF r.kind = "flat" THEN r.captions
    ELSE Flatten([k \in 1..Len(r.segments) |-> r.segments[k].captions])

\* C11: for every non-empty cue sequence and every count >= 1, the handler's
\* smart segmentation produces at most count segments.
C11_AtMostCountSegments ==
    (call.op = "smart" /\ Has(call.count)) =>
        /\ result.kind = "segments"
        /\ Len(result.segments) <= Val(call.count)

\* the sequence has as many pauses above the threshold as the count asked
\* for, which would cut it into count + 1 parts, and count segments came out
C11_Witness ==
    /\ call.op = "smart" /\ Has(call.count)
    /\ Val(call.count) > 1
    /\ Cardinality(SignificantPauses(segments)) >= Val(call.count)
    /\ Len(result.segments) = Val(call.count)

\* C12: for every non-empty cue sequence and every count >= 1, the handler's
\* smart segmentation never drops a cue: the cues of the output segments,
\* read in order, are the input cues, each exactly once.
C12_NoCueDropped ==
    (call.op = "smart" /\ Has(call.count)) =>
        SegmentedCues(result) = segments



\* the output of the pipeline for video v of a combined run: what the
\* getTranscript of the video returned
PerVideo(v) == calls[enh.first + v].value

\* the cues that the combined run returned
CombinedOutput == Val(enh.result).segments

\* C27: the second run of the pipeline, on the combined cues, changes
\* nothing: when getEnhancedTranscript returns, its cues are the per-video
\* outputs of getTranscript concatenated in the order of the ids, every cue
\* under the id of its video; no cue is removed and none is added across a
\* video boundary
C27_SecondRunChangesNothing ==
    (call.op = "combined" /\ enh.stage = "returned") =>
        LET first == PerVideo(1)
        IN  /\ \A v \in 1..2 :
                   PerVideo(v) = processTranscript(call.raws[v], enh.options)
            /\ Cores(CombinedOutput) = first \o PerVideo(2)
            /\ \A i \in 1..Len(CombinedOutput) :
                   CombinedOutput[i].videoId =
                       enh.videoIds[IF i <= Len(first) THEN 1 ELSE 2]

\* the call returned after both fetches and both lookups were answered; the
\* first run removed a cue of the first video, the search kept a line of
\* context, and both videos kept cues
C27_Witness ==
    /\ call.op = "combined"
    /\ enh.stage = "returned"
    /\ Has(enh.options.search)
    /\ Val(enh.options.search).contextLines = {1}
    /\ Len(PerVideo(1)) > 0 /\ Len(PerVideo(2)) > 0
    /\ Len(PerVideo(1)) < Len(call.raws[1])
    /\ Len(CombinedOutput) = Len(PerVideo(1)) + Len(PerVideo(2))

\* the gaps of a sequence: gap(i) = offset(i) - (offset(i-1) + duration(i-1))
GapsOf(s) ==
    [i \in 1..(Len(s) - 1) |-> s[i + 1].offset - (s[i].offset + s[i].duration)]

PositiveGapsOf(s) == SelectSeq(GapsOf(s), LAMBDA g : g > 0)

\* g compared with max(3 x average of the positive gaps, 1000 ms), the
\* average taken as the exact quotient: "above", "equal" or "below"
AgainstThreshold(s, g) ==
    LET n == Len(PositiveGapsOf(s))
        total == Sum(PositiveGapsOf(s), LAMBDA x : x)
        timesN == IF n = 0 THEN 1 ELSE n
        threshold == IF 3 * total >= 1000 * timesN
                     THEN 3 * total ELSE 1000 * timesN
    IN  IF g * timesN > threshold THEN "above"
        ELSE IF g * timesN = threshold THEN "equal"
        ELSE "below"

\* the place in the input of the first cue of output segment k
SegmentStart(segs, k) ==
    1 + Sum(SubSeq(segs, 1, k - 1), LAMBDA seg : Len(seg.captions))

\* C26: the smart segmentation starts a new segment before cue i only if
\* gap(i) is strictly greater than max(3 x average positive gap, 1000 ms);
\* a sequence whose gaps are all <= 1000 ms, or that has no positive gap,
\* yields exactly one segment that contains every cue
C26_SegmentOnlyAfterLongPause ==
    call.op = "smart" =>
        /\ result.kind = "segments"
        /\ \A k \in 2..Len(result.segments) :
               AgainstThreshold(segments,
                   GapsOf(segments)[SegmentStart(result.segments, k) - 1]) = "above"
        /\ (\A i \in 1..Len(GapsOf(segments)) : GapsOf(segments)[i] <= 1000) =>
               /\ Len(result.segments) = 1
               /\ result.segments[1].captions = segments

\* a sequence with a gap of more than a second that is exactly the
\* threshold, and none above it, came out as one segment
C26_Witness ==
    /\ call.op = "smart"
    /\ \E i \in 1..Len(GapsOf(segments)) :
           /\ GapsOf(segments)[i] > 1000
           /\ AgainstThreshold(segments, GapsOf(segments)[i]) = "equal"
    /\ \A i \in 1..Len(GapsOf(segments)) :
           AgainstThreshold(segments, GapsOf(segments)[i]) # "above"
    /\ Len(result.segments) = 1
    /\ result.segments[1].captions = segments

\* the options of the request break an invariant of the specification: a
\* time range with start > end, or an empty search query
Malformed(req) ==
    /\ req.op = "enhanced-transcript"
    /\ Has(req.filters)
    /\ \/ /\ Has(Val(req.filters).timeRange)
          /\ Has(Val(Val(req.filters).timeRange).start)
          /\ Has(Val(Val(req.filters).timeRange).end)
          /\ Val(Val(Val(req.filters).timeRange).start)
                 > Val(Val(Val(req.filters).timeRange).end)
       \/ /\ Has(Val(req.filters).search)
          /\ Val(Val(req.filters).search).query = <<>>

\* C20: a request with malformed options is rejected with a validation error
\* before any I/O: no metadata lookup, no caption fetch and no cache read or
\* write happens for it.
C20_MalformedRejectedBeforeIO ==
    Malformed(hreq) =>
        /\ hpc.at = "rejected"
        /\ hlog = <<>>
        /\ calls = <<>>
        /\ transcriptCache = {}


-----------------------------------------------------------------------------
(* Claims about error reports, checked under SpecHandler and Spec *)

\* C24: caption unavailability, whether the caption source signals it by
\* returning no cues or by failing, is reported with the 'no transcript'
\* payload and never with the generic payload of the transport failures: no
\* entry reports a failure whose cause is CaptionUnavailable as
\* "Error processing video: ..."
C24_UnavailableIsNoTranscript ==
    \A k \in 1..Len(results) :
        IsErrorPayload(results[k]) =>
            results[k].error # ErrProcessing("CaptionUnavailable")

\* C25: one getTranscript call invokes the caption source at most once, not
\* at all on a cache hit, and a call whose fetch failed has invoked it once
\* and raised an error that carries its video id, its options and the
\* original cause: a value the caption source rejects such a request with
C25_OneFetchErrorCarriesCause ==
    \A i \in 1..Len(calls) :
        /\ calls[i].fetches <= 1
        /\ ~calls[i].fetched => calls[i].fetches = 0
        /\ calls[i].status = "failed" =>
               /\ calls[i].fetches = 1
               /\ Has(calls[i].error)
               /\ Val(calls[i].error).name = "TranscriptError"
               /\ Val(calls[i].error).videoId = calls[i].videoId
               /\ Val(calls[i].error).options = calls[i].options
               /\ Val(calls[i].error).originalError \in
                      FetchFailure(calls[i].videoId, scraperLang(calls[i].options))


-----------------------------------------------------------------------------
(* Claims about the per-video result, checked under SpecReport *)

\* C28: the search report and the transcript of a per-video result agree:
\* every cue counted in search.matchCount appears in the filtered transcript,
\* and metadata.filteredCaptionCount is the number of cues in the transcript
\* and at most captionCount, also when cues share an offset
C28_ReportAgreesWithTranscript ==
    call.op = "report" =>
        /\ Has(result.search) =>
               /\ Val(result.search).matchCount = Len(Val(result.search).matches)
               /\ \A m \in 1..Val(result.search).matchCount :
                      \E i \in 1..Len(result.transcript) :
                          Core(result.transcript[i])
                              = Core(Val(result.search).matches[m].match)
        /\ Val(result.metadata).filteredCaptionCount = Len(result.transcript)
        /\ Val(result.metadata).filteredCaptionCount
               <= Val(result.metadata).captionCount


-----------------------------------------------------------------------------
(* Claims about the order of the handler's steps, checked under SpecHandler *)

\* the places in the log of the metadata lookups, in order
LookupPlaces == Ascending({p \in 1..Len(hlog) : hlog[p][1] = "getVideoDetails"})

\* entry k reports that the lookup of videoIds[k] found nothing or failed
LookupFailed(k) ==
    /\ IsErrorPayload(results[k])
    /\ results[k].error \in {ErrNotFound, ErrProcessing("getVideoDetails")}

\* C30: the steps of one video are lookup, then fetch, then filters, and the
\* videos are processed one after the other: the lookup of videoIds[i+1] is
\* issued only when the entry of videoIds[i] has been appended, a fetch
\* directly follows the lookup of its own video, the filters run on a
\* transcript that getTranscript returned, and a video whose lookup found
\* nothing or failed gets no getTranscript call, hence no fetch and no cache
\* entry
C30_LookupThenFetchThenFilters ==
    /\ Len(LookupPlaces) <= Len(results) + 1
    /\ hpc.at = "details" => Len(LookupPlaces) = Len(results)
    /\ \A k \in 1..Len(LookupPlaces) :
           hlog[LookupPlaces[k]] = <<"getVideoDetails", hreq.videoIds[k]>>
    /\ \A p \in 1..Len(hlog) :
           hlog[p][1] = "getSubtitles" =>
               /\ p > 1
               /\ hlog[p - 1] = <<"getVideoDetails", hlog[p][2]>>
    /\ \A k \in 1..Len(results) :
           LookupFailed(k) =>
               \/ LookupPlaces[k] = Len(hlog)
               \/ hlog[LookupPlaces[k] + 1][1] = "getVideoDetails"
    /\ Len(calls) =
           Cardinality({k \in 1..Len(results) : ~LookupFailed(k)})
               + (IF hpc.at \in {"awaiting", "filters"} THEN 1 ELSE 0)
    /\ hpc.at = "filters" => calls[Len(calls)].status = "returned"
    /\ \A e \in transcriptCache :
           \E i \in 1..Len(calls) :
               /\ calls[i].fetched /\ calls[i].status = "returned"
               /\ generateTranscriptCacheKey(calls[i].videoId, calls[i].options)
                      = e.key

\* a request for two videos has ended: the lookup of the first found
\* nothing, the second was looked up, fetched and filtered, and the cache
\* holds the one entry of the second
C30_Witness ==
    /\ hpc.at = "done"
    /\ Len(hreq.videoIds) = 2
    /\ hreq.videoIds[1] # hreq.videoIds[2]
    /\ Len(results) = 2
    /\ results[1].error = ErrNotFound
    /\ IsTranscriptPayload(results[2])
    /\ hlog = << <<"getVideoDetails", hreq.videoIds[1]>>,
                 <<"getVideoDetails", hreq.videoIds[2]>>,
                 <<"getSubtitles", hreq.videoIds[2]>> >>
    /\ Len(calls) = 1
    /\ Cardinality(transcriptCache) = 1

=============================================================================
